---------------------------- MODULE Spec2Model ----------------------------
(***************************************************************************)
(* Model of scripts/run_dev/build_image_layers.py: key ordering            *)
(* (ImageKey.from_key_set), layer resolution (resolve_dockerfiles), chain  *)
(* fingerprints (ImageBuildPlan.md5hash) and the compilation of the bake   *)
(* dictionary (ImageBuildPlan.generate_bake_dict).                         *)
(*                                                                         *)
(* Conventions.                                                            *)
(*  - A Python string is a sequence of tokens; string concatenation is \o. *)
(*    The tokens are chosen so that no separator (".", "-", "_", ":", "/") *)
(*    occurs inside another token.                                         *)
(*  - An optional Python value is a sequence of length at most one:        *)
(*    None is <<>> and a value v is <<v>>.                                 *)
(*  - A dict whose insertion order matters is a sequence of <<key, value>> *)
(*    pairs in insertion order.                                            *)
(***************************************************************************)
EXTENDS Integers, Sequences, FiniteSets, TLC

VARIABLES
    pc,                     \* position of the modelled run
    image_key_set,          \* the keys in the order the caller supplied them
    key_order,              \* optional preference list (Config.image_key_order_)
    image_key,              \* ImageKey.image_keys_ handed to resolve_dockerfiles
    docker_search_dirs,     \* ordered list of search directories
    ignore_composite_keys,  \* flag of resolve_dockerfiles
    files,                  \* the file system: set of [dir, name, content]
    image_ids,              \* resolve_dockerfiles: keys not yet matched
    dockerfiles,            \* resolve_dockerfiles: layers matched so far
    build_plan,             \* optional result of resolve_dockerfiles
    bake_args,              \* arguments of the generate_bake_dict call
    docker_bake_dict,       \* outcome of generate_bake_dict
    plan_target_names,     \* result of build_plan.target_names()
    image_name_args,        \* arguments of the get_image_name call
    image_name,             \* outcome of get_image_name
    cwd,                    \* working directory of each process
    tmp_file,               \* optional content of /tmp/dockerhash.tmp
    hash_pc,                \* md5hash: position of each process
    hash_plan,              \* dockerfiles_ of the plan each process holds
    hash_arg,               \* md5hash: self.dockerfiles_ of the running call
    hash_i,                 \* md5hash: index of the loop over the sorted list
    hash_returns,           \* md5hash: outcomes of the finished calls, per process
    hash_entry,             \* cwd, temporary file and files when the call began
    hash_overlapped,        \* a call began while another process was in one
    prefix_names,           \* target_names() results, one entry per call
    written_layer,          \* optional index of the layer whose file was rewritten
    main_args,              \* main: verbose, no_cache, skip_registry_check, target_image_name
    cache_from_login,       \* main: optional result of the cache-from registry logins
    build_target_names,     \* main: indices of the stages that are built
    invocations,            \* main: the docker buildx commands run, with their success
    report,                 \* main: what a run whose resolution failed has printed
    exit_status,            \* main: optional exit status of the process
    bake_plan_dicts,        \* as_hcl_str: the build graphs handed to it, in turn
    hcl_texts,              \* as_hcl_str: the texts returned so far
    config_files,           \* config_loader: optional YAML document of each scope file
    loaded_config,          \* config_loader: optional outcome of load_config
    scan_i,                 \* resolve_dockerfiles: optional index i of the for loop
    scan_len,               \* resolve_dockerfiles: unmatched_id_count of the scan
    scan_tried,             \* resolve_dockerfiles: candidate lengths looked up in the scan
    yaml_config,            \* main: content of the YAML file given by --config_file
    context_dir_arg,        \* main: optional --context_dir
    main_search_dirs,       \* main: config.docker_search_dirs_ handed to resolve_dockerfiles
    graph_i,                \* generate_bake_dict: passes of the loop over the stages done
    graph_targets,          \* generate_bake_dict: build_plan['targets'] so far
    graph_selected,         \* main: optional outcome of the loop over target_names()
    common_config_file,     \* Config.common_config_file_: optional directory of the file
    config_lists,           \* Config: the stored list of each list-valued key
    last_loaded,            \* Config.load: per key, the processed list of the latest load that had it
    loads_done,             \* Config.load: number of calls made
    all_unique,             \* Config.load: every list loaded so far was duplicate-free after processing
    init_outcome,           \* cli: optional outcome of 'init docker'
    activate_outcome,       \* cli: optional outcome of 'activate'
    run_args,               \* run_dev: use_cached_build_image, build, build_local
    host,                   \* run_dev: the checks pass, a container of the name runs
    local_images,           \* run_dev: the images of the local docker store
    registry_images,        \* run_dev: the images a docker pull can fetch
    run_base_name,          \* run_dev.main: base_name
    run_trace,              \* run_dev.main: what the run has done so far, in order
    container_image,        \* run_dev: optional image of the container that was started
    run_exit                \* run_dev: optional exit status of the process

bakeVars == <<bake_args, docker_bake_dict, plan_target_names, image_name_args, image_name>>

hashVars == <<cwd, tmp_file, hash_pc, hash_plan, hash_arg, hash_i, hash_returns,
              hash_entry, hash_overlapped>>

\* the variables of the specifications added after the plan compilation
sensVars == <<prefix_names, written_layer>>
mainVars == <<main_args, cache_from_login, build_target_names, invocations, report,
              exit_status>>
hclVars == <<bake_plan_dicts, hcl_texts>>
configVars == <<config_files, loaded_config>>
scanVars == <<scan_i, scan_len, scan_tried>>
\* the variables of the specifications of the loops, the loaders and the commands
identVars == <<yaml_config, context_dir_arg, main_search_dirs>>
graphVars == <<graph_i, graph_targets, graph_selected>>
loadVars == <<common_config_file, config_lists, last_loaded, loads_done, all_unique>>
cmdVars == <<init_outcome, activate_outcome>>
runVars == <<run_args, host, local_images, registry_images, run_base_name,
             run_trace,
             container_image, run_exit>>
lateVars == <<scanVars, identVars, graphVars, loadVars, cmdVars, runVars>>
otherVars == <<hashVars, sensVars, mainVars, hclVars, configVars, lateVars>>

vars == <<pc, image_key_set, key_order, image_key, docker_search_dirs,
          ignore_composite_keys, files, image_ids, dockerfiles, build_plan,
          bakeVars, otherVars>>

---------------------------------------------------------------------------
(* Bounds and input sets *)

MaxFiles == 2
MaxOrderLen == 2
MaxExtraFiles == 1

Keys == {"a", "b", "c"}
Dirs == {"d1", "d2"}

None == <<>>
Some(v) == <<v>>

\* Python compares the one-character keys of the model by code point.
KeyRank == [k \in Keys |-> CASE k = "a" -> 1 [] k = "b" -> 2 [] k = "c" -> 3]
StrLess(a, b) == KeyRank[a] < KeyRank[b]

Range(s) == {s[i] : i \in 1..Len(s)}
NoDup(s) == \A i, j \in 1..Len(s) : i # j => s[i] # s[j]
\* all duplicate-free sequences over S of length at most n
SeqsUpTo(S, n) == UNION {{s \in [1..m -> S] : NoDup(s)} : m \in 0..n}
KeySeqs == SeqsUpTo(Keys, Cardinality(Keys))

RECURSIVE Join(_, _)
\* sep.join(parts) for a list of strings
Join(sep, parts) ==
    IF parts = <<>> THEN <<>>
    ELSE IF Len(parts) = 1 THEN parts[1]
    ELSE parts[1] \o sep \o Join(sep, Tail(parts))

\* ImageKey.__str__ : ".".join(self.image_keys_)
ImageKeyStr(keys) == Join(<<".">>, [i \in 1..Len(keys) |-> <<keys[i]>>])

\* the file name Dockerfile.<dotted keys>
DockerfileName(suffix) == <<"Dockerfile", ".">> \o suffix

DefaultContent == "c1"
AllNames == {DockerfileName(ImageKeyStr(ks)) : ks \in KeySeqs \ {<<>>}}
AllFiles == {[dir |-> d, name |-> n, content |-> DefaultContent] : d \in Dirs, n \in AllNames}
RECURSIVE SubsetsUpTo(_, _)
\* the subsets of S with at most n elements
SubsetsUpTo(S, n) ==
    IF n = 0 THEN {{}}
    ELSE LET P == SubsetsUpTo(S, n - 1)
         IN  P \cup {p \cup {x} : p \in P, x \in S}
FileSets(n) == SubsetsUpTo(AllFiles, n)

SearchDirLists == {<<"d1", "d2">>, <<"d2">>}

---------------------------------------------------------------------------
(* ImageKey.from_key_set *)

RECURSIVE IndexOf(_, _)
\* list.index(x): position of the first occurrence, 0-based
IndexOf(list, x) == IF list[1] = x THEN 0 ELSE 1 + IndexOf(Tail(list), x)

\* mutant: two keys absent from the preference list are never reordered
compare_image_keys_NoFallback(a, b, order) ==
    IF a \in Range(order) /\ b \in Range(order)
    THEN IF IndexOf(order, a) < IndexOf(order, b) THEN -1 ELSE 1
    ELSE IF a \in Range(order) THEN -1
    ELSE 1

compare_image_keys(a, b, order) ==
    IF a \in Range(order) /\ b \in Range(order)
    THEN IF IndexOf(order, a) < IndexOf(order, b) THEN -1 ELSE 1
    ELSE IF a \in Range(order) THEN -1
    ELSE IF b \in Range(order) THEN 1
    ELSE IF StrLess(a, b) THEN -1 ELSE 1

RECURSIVE InsertSorted(_, _, _)
\* insert x behind every element of the sorted list that x is not less than
InsertSorted(sorted, x, order) ==
    IF sorted = <<>> THEN <<x>>
    ELSE IF compare_image_keys(x, sorted[1], order) < 0 THEN <<x>> \o sorted
    ELSE <<sorted[1]>> \o InsertSorted(Tail(sorted), x, order)

RECURSIVE SortedByCmp(_, _)
\* sorted(seq, key=cmp_to_key(compare_image_keys)): stable insertion sort
SortedByCmp(seq, order) ==
    IF seq = <<>> THEN <<>>
    ELSE InsertSorted(SortedByCmp(SubSeq(seq, 1, Len(seq) - 1), order),
                      seq[Len(seq)], order)

\* mutant: the preference list is not consulted
from_key_set_NoOrder(key_set, order_opt) == SortedByCmp(key_set, <<>>)

from_key_set(key_set, order_opt) ==
    LET order == IF order_opt = None THEN <<>> ELSE order_opt[1]
    IN  SortedByCmp(key_set, order)

---------------------------------------------------------------------------
(* resolve_dockerfiles *)

is_file(d, name, fs) == \E f \in fs : f.dir = d /\ f.name = name

RECURSIVE FirstDir_Last(_, _, _)
\* mutant: a later search directory holding the file overrides an earlier one
FirstDir_Last(dirs, name, fs) ==
    IF dirs = <<>> THEN None
    ELSE IF FirstDir_Last(Tail(dirs), name, fs) # None
         THEN FirstDir_Last(Tail(dirs), name, fs)
    ELSE IF is_file(dirs[1], name, fs) THEN Some(dirs[1])
    ELSE None

RECURSIVE FirstDir(_, _, _)
\* the first search directory holding the file, or None
FirstDir(dirs, name, fs) ==
    IF dirs = <<>> THEN None
    ELSE IF is_file(dirs[1], name, fs) THEN Some(dirs[1])
    ELSE FirstDir(Tail(dirs), name, fs)

NewDockerfile(d, name, keys) ==
    [dockerfile_path_ |-> [dir |-> d, name |-> name],
     context_dir_ |-> d,
     image_key_ |-> keys]

RECURSIVE ScanLengths(_, _, _, _, _)

\* mutant: only the first remaining key is looked up
ScanLengths_FirstKey(i, ids, dirs, fs, ignore) ==
    LET name == DockerfileName(ImageKeyStr(SubSeq(ids, 1, 1)))
        hit == FirstDir(dirs, name, fs)
    IN  IF i < 0 \/ hit = None THEN None
        ELSE Some([i |-> 0, dockerfile |-> NewDockerfile(hit[1], name, SubSeq(ids, 1, 1))])

\* the for loop over i = len(image_ids)-1 .. 0 of one pass of the while loop:
\* the matched Dockerfile with the index i it matched at, or None
ScanLengths(i, ids, dirs, fs, ignore) ==
    IF i < 0 THEN None
    ELSE IF ignore /\ i = 1 THEN None
    ELSE LET layer_image_ids == SubSeq(ids, 1, i + 1)
             name == DockerfileName(ImageKeyStr(layer_image_ids))
             hit == FirstDir(dirs, name, fs)
         IN  IF hit # None
             THEN Some([i |-> i, dockerfile |-> NewDockerfile(hit[1], name, layer_image_ids)])
             ELSE ScanLengths(i - 1, ids, dirs, fs, ignore)

Scan(ids, dirs, fs, ignore) == ScanLengths(Len(ids) - 1, ids, dirs, fs, ignore)

NewImageBuildPlan(dfs, key) == [dockerfiles_ |-> dfs, image_key_ |-> key]

\* mutant: the layers matched before the failure are returned as a plan
ResolveFailure_Partial(dfs, key) == Some(NewImageBuildPlan(dfs, key))

\* what resolve_dockerfiles returns when a scan matched nothing
ResolveFailure(dfs, key) == None

RECURSIVE ResolveLoop(_, _, _, _, _, _)
ResolveLoop(ids, dfs, key, dirs, fs, ignore) ==
    IF ids = <<>> THEN Some(NewImageBuildPlan(dfs, key))
    ELSE LET m == Scan(ids, dirs, fs, ignore)
         IN  IF m = None THEN ResolveFailure(dfs, key)
             ELSE ResolveLoop(SubSeq(ids, m[1].i + 2, Len(ids)),
                              Append(dfs, m[1].dockerfile), key, dirs, fs, ignore)

\* resolve_dockerfiles as a function of its arguments and the file system
resolve_dockerfiles(key, dirs, fs, ignore) ==
    ResolveLoop(key, <<>>, key, dirs, fs, ignore)

---------------------------------------------------------------------------
(* Dictionaries: sequences of <<key, value>> pairs in insertion order *)

DictHas(d, k) == \E n \in 1..Len(d) : d[n][1] = k
DictGet(d, k) == d[CHOOSE n \in 1..Len(d) : d[n][1] = k][2]
DictKeys(d) == [n \in 1..Len(d) |-> d[n][1]]
\* d[k] = v
DictSet(d, k, v) ==
    IF DictHas(d, k)
    THEN [n \in 1..Len(d) |-> IF d[n][1] = k THEN <<k, v>> ELSE d[n]]
    ELSE Append(d, <<k, v>>)

RECURSIVE DictUpdate(_, _)
\* d.update(e)
DictUpdate(d, e) ==
    IF e = <<>> THEN d
    ELSE DictUpdate(DictSet(d, e[1][1], e[1][2]), Tail(e))

---------------------------------------------------------------------------
(* ImageBuildPlan.md5hash, target_name, target_names *)

\* md5 of a text, collision free: the text wrapped in a marker
Md5(text) == <<"md5(">> \o text \o <<")">>

\* code point order of the tokens of a dotted image key: "." is below a key
TokRank(t) == IF t \in Keys THEN KeyRank[t] ELSE 0

RECURSIVE PyStrLess(_, _)
\* x < y for Python strings
PyStrLess(x, y) ==
    IF y = <<>> THEN FALSE
    ELSE IF x = <<>> THEN TRUE
    ELSE IF TokRank(x[1]) < TokRank(y[1]) THEN TRUE
    ELSE IF TokRank(x[1]) > TokRank(y[1]) THEN FALSE
    ELSE PyStrLess(Tail(x), Tail(y))

\* Dockerfile.image_key
DockerfileImageKey(d) == ImageKeyStr(d.image_key_)

RECURSIVE InsertByImageKey(_, _)
InsertByImageKey(sorted, d) ==
    IF sorted = <<>> THEN <<d>>
    ELSE IF PyStrLess(DockerfileImageKey(d), DockerfileImageKey(sorted[1]))
         THEN <<d>> \o sorted
    ELSE <<sorted[1]>> \o InsertByImageKey(Tail(sorted), d)

RECURSIVE SortedByImageKey(_)
\* sorted(self.dockerfiles_, key=lambda x: x.image_key())
SortedByImageKey(dfs) ==
    IF dfs = <<>> THEN <<>>
    ELSE InsertByImageKey(SortedByImageKey(SubSeq(dfs, 1, Len(dfs) - 1)), dfs[Len(dfs)])

\* mutant: the line holds the file name only
Md5sumLine_NameOnly(d, fs) ==
    IF is_file(d.context_dir_, d.dockerfile_path_.name, fs)
    THEN d.dockerfile_path_.name \o <<"\n">>
    ELSE <<>>

\* what "cd context_dir; md5sum name >> tmp_file" appends: a line
\* "<md5 of the content>  <name>", or nothing when the file does not exist
Md5sumLine(d, fs) ==
    IF is_file(d.context_dir_, d.dockerfile_path_.name, fs)
    THEN LET f == CHOOSE f \in fs : f.dir = d.context_dir_ /\ f.name = d.dockerfile_path_.name
         IN  Md5(<<f.content>>) \o <<"  ">> \o d.dockerfile_path_.name \o <<"\n">>
    ELSE <<>>

RECURSIVE HashFileText(_, _)
\* the content of the temporary file after the loop
HashFileText(sorted, fs) ==
    IF sorted = <<>> THEN <<>>
    ELSE Md5sumLine(sorted[1], fs) \o HashFileText(Tail(sorted), fs)

\* ImageBuildPlan(dfs).md5hash()
md5hash(dfs, fs) == Md5(HashFileText(SortedByImageKey(dfs), fs))

\* mutant: hashless_target_name is used where target_name is meant
target_name_Hashless(dfs, fs) ==
    Join(<<"-">>, [j \in 1..Len(dfs) |-> DockerfileImageKey(dfs[j])])

\* ImageBuildPlan(dfs).target_name()
target_name(dfs, fs) ==
    Join(<<"-">>, [j \in 1..Len(dfs) |-> DockerfileImageKey(dfs[j])])
        \o <<"_">> \o md5hash(dfs, fs)

\* ImageBuildPlan(dfs).target_names()
target_names(dfs, fs) == [i \in 1..Len(dfs) |-> target_name(SubSeq(dfs, 1, i), fs)]

---------------------------------------------------------------------------
(* ImageBuildPlan.generate_bake_dict *)

\* str(x) of an optional string inside an f-string
Fmt(opt) == IF opt = None THEN <<"None">> ELSE opt[1]
\* truth value of an optional string or dictionary
Truthy(opt) == opt # None /\ opt[1] # <<>>
\* "nvcr.io" in s
ContainsNvcr(s) == "nvcr.io" \in Range(s)

FileArch(arch) == IF arch = "aarch64" THEN "arm64" ELSE "amd64"

\* mutant: every registry is treated as an NVCR registry
UsesColonForm_Always(registry) == TRUE

\* the two tag formats of lines 382-391 and 397-410
UsesColonForm(registry) == Truthy(registry) /\ ContainsNvcr(registry[1])
TagFor(registry, name, platform) ==
    IF UsesColonForm(registry)
    THEN Fmt(registry) \o <<":">> \o name \o <<"-", platform>>
    ELSE Fmt(registry) \o <<"/">> \o name \o <<"-", platform, ":", "latest">>

\* mutant: the dependency is taken two stages back where one exists
DependsName_TwoBack(dfs, i, fs) ==
    target_name(SubSeq(dfs, 1, IF i > 2 THEN i - 2 ELSE i), fs)

\* the name stage i declares its dependency on (line 415)
DependsName(dfs, i, fs) == target_name(SubSeq(dfs, 1, i - 1), fs)

\* mutant: the BASE_IMAGE reference always uses the path form
BaseImageRef_PathForm(registry, dfs, i, fs, platform) ==
    Fmt(registry) \o <<"/">> \o target_name(SubSeq(dfs, 1, i - 1), fs)
        \o <<"-", platform, ":", "latest">>

\* the BASE_IMAGE reference of stage i > 1 (lines 395-410)
BaseImageRef(registry, dfs, i, fs, platform) ==
    TagFor(registry, target_name(SubSeq(dfs, 1, i - 1), fs), platform)

\* the arguments of stage i before the extra build arguments are merged
StageArgs(dfs, i, fs, a) ==
    LET file_arch == FileArch(a.arch)
        platform_args == << <<"PLATFORM", <<file_arch>> >> >>
    IN  IF i = 1
        THEN IF a.base_image # None
             THEN DictSet(platform_args, "BASE_IMAGE", a.base_image[1])
             ELSE platform_args
        ELSE DictUpdate(platform_args,
                 << <<"BASE_IMAGE", BaseImageRef(a.cache_from_registry, dfs, i, fs, file_arch)>> >>)

\* the tags of stage i (lines 382-391, 397-408, 416-417)
StageTags(dfs, i, fs, a) ==
    LET name == target_name(SubSeq(dfs, 1, i), fs)
        first == <<TagFor(a.cache_from_registry, name, FileArch(a.arch))>>
    IN  IF a.nvcr_tag THEN Append(first, <<"None", ":">> \o name) ELSE first

\* the target dictionary of stage i (the i-th pass of the loop of line 372)
StageTarget(dfs, i, fs, a) ==
    [name |-> target_name(SubSeq(dfs, 1, i), fs),
     context |-> Some(dfs[i].context_dir_),
     dockerfile |-> Some(dfs[i].dockerfile_path_.name),
     dockerfile_inline |-> None,
     args |-> Some(StageArgs(dfs, i, fs, a)),
     tags |-> StageTags(dfs, i, fs, a),
     depends_on |-> IF i = 1 THEN None ELSE Some(<<DependsName(dfs, i, fs)>>)]

RECURSIVE StageTargets(_, _, _, _)
\* build_plan['targets'] after the first n passes of the loop
StageTargets(dfs, n, fs, a) ==
    IF n = 0 THEN <<>>
    ELSE LET t == StageTarget(dfs, n, fs, a)
         IN  DictSet(StageTargets(dfs, n - 1, fs, a), t.name, t)

\* mutant: the arguments the compiler set win over the caller's
MergeExtraArgs_CompilerWins(target, extra) ==
    [target EXCEPT !.args =
        Some(DictUpdate(extra, IF target.args = None THEN <<>> ELSE target.args[1]))]

\* target['args'].update(extra_build_args) of one target (lines 422-424)
MergeExtraArgs(target, extra) ==
    [target EXCEPT !.args =
        Some(DictUpdate(IF target.args = None THEN <<>> ELSE target.args[1], extra))]

\* lines 420-424
WithExtraArgs(targets, extra_build_args) ==
    IF Truthy(extra_build_args)
    THEN [n \in 1..Len(targets) |->
             <<targets[n][1], MergeExtraArgs(targets[n][2], extra_build_args[1])>>]
    ELSE targets

FinalTargetKey == <<"final_target">>

\* mutant: the retag target derives from the target name, not from its tag
FinalTargetDict_FromName(target_image_name, final_target) ==
    [name |-> target_image_name,
     context |-> None,
     dockerfile |-> None,
     dockerfile_inline |-> Some(<<"FROM", " ">> \o final_target.name),
     args |-> None,
     tags |-> <<target_image_name>>,
     depends_on |-> Some(<<final_target.name>>)]

\* the retag target (lines 432-437)
FinalTargetDict(target_image_name, final_target) ==
    [name |-> target_image_name,
     context |-> None,
     dockerfile |-> None,
     dockerfile_inline |-> Some(<<"FROM", " ">> \o final_target.tags[1]),
     args |-> None,
     tags |-> <<target_image_name>>,
     depends_on |-> Some(<<final_target.name>>)]

\* mutant: the context override is dropped
WithFinalTarget_NoOverride(targets, dfs, fs, a) ==
    LET final_key == target_name(dfs, fs)
        final_target == DictGet(targets, final_key)
    IN  DictSet(targets, FinalTargetKey,
                FinalTargetDict(a.target_image_name[1], final_target))

\* lines 427-439: the context override changes the last real target, then
\* the retag target is added under the key 'final_target'
WithFinalTarget(targets, dfs, fs, a) ==
    LET final_key == target_name(dfs, fs)
        found == DictGet(targets, final_key)
        final_target == IF a.context_dir # None
                        THEN [found EXCEPT !.context = Some(a.context_dir[1])]
                        ELSE found
    IN  DictSet(DictSet(targets, final_key, final_target),
                FinalTargetKey, FinalTargetDict(a.target_image_name[1], final_target))

BakeVariables(a) ==
    << <<"ARCH", <<a.arch>> >>,
       <<"FILE_ARCH", <<FileArch(a.arch)>> >>,
       <<"CACHE_FROM_REGISTRY",
         IF Truthy(a.cache_from_registry) THEN a.cache_from_registry[1] ELSE <<"local">> >> >>

\* generate_bake_dict: the dictionary, or raised = TRUE for the KeyError of
\* targets[final_key] (line 429) when no stage target has the final key
generate_bake_dict(dfs, fs, a) ==
    LET staged == WithExtraArgs(StageTargets(dfs, Len(dfs), fs, a), a.extra_build_args)
    IN  IF a.target_image_name # None /\ ~DictHas(staged, target_name(dfs, fs))
        THEN [called |-> TRUE, raised |-> TRUE, variables |-> <<>>, targets |-> <<>>]
        ELSE [called |-> TRUE, raised |-> FALSE, variables |-> BakeVariables(a),
              targets |-> IF a.target_image_name # None
                          THEN WithFinalTarget(staged, dfs, fs, a)
                          ELSE staged]

---------------------------------------------------------------------------
(* get_image_name *)

\* lines 574-608; None stands for exit(1)
get_image_name(registry, env_list, file_arch, include_hash, suffix, dirs, fs) ==
    LET joined == Join(<<"-">>, [j \in 1..Len(env_list) |-> <<env_list[j]>>])
        base_name == IF Truthy(suffix) THEN joined \o <<"-">> \o suffix[1] ELSE joined
        key == from_key_set(env_list, None)
        plan == resolve_dockerfiles(key, dirs, fs, FALSE)
        hashed == IF include_hash /\ plan # None
                  THEN base_name \o <<"_">> \o md5hash(plan[1].dockerfiles_, fs)
                  ELSE base_name
        name == hashed \o <<"-", file_arch>>
    IN  IF include_hash /\ plan = None THEN None
        ELSE IF ContainsNvcr(registry)
             THEN Some(registry \o <<":">> \o name)
             ELSE Some(registry \o <<"/">> \o name \o <<":", "latest">>)

---------------------------------------------------------------------------
(* Values of the bake variables while no bake call has been made *)

NotCalled == [called |-> FALSE]
BakeIdle ==
    /\ bake_args = None
    /\ docker_bake_dict = NotCalled
    /\ plan_target_names = None
    /\ image_name_args = None
    /\ image_name = NotCalled

\* the processes that run md5hash on one machine; each starts in StartDir
Procs == {"p1", "p2"}
StartDir == "w"

\* no md5hash call was made
HashIdle ==
    /\ cwd = [p \in Procs |-> StartDir]
    /\ tmp_file = None
    /\ hash_pc = [p \in Procs |-> "idle"]
    /\ hash_plan = [p \in Procs |-> <<>>]
    /\ hash_arg = [p \in Procs |-> <<>>]
    /\ hash_i = [p \in Procs |-> 0]
    /\ hash_returns = [p \in Procs |-> <<>>]
    /\ hash_entry = [p \in Procs |-> None]
    /\ hash_overlapped = FALSE

\* target_names was not called and no file was rewritten
SensIdle ==
    /\ prefix_names = <<>>
    /\ written_layer = None

\* main is not running
MainIdle ==
    /\ main_args = None
    /\ cache_from_login = None
    /\ build_target_names = <<>>
    /\ invocations = <<>>
    /\ report = <<>>
    /\ exit_status = None

\* as_hcl_str was not called
HclIdle ==
    /\ bake_plan_dicts = <<>>
    /\ hcl_texts = <<>>

\* load_config was not called
ConfigIdle ==
    /\ config_files = <<>>
    /\ loaded_config = None

\* resolve_dockerfiles is not followed pass by pass
ScanIdle ==
    /\ scan_i = None
    /\ scan_len = 0
    /\ scan_tried = <<>>

\* main has not loaded its configuration
IdentIdle ==
    /\ yaml_config = <<>>
    /\ context_dir_arg = None
    /\ main_search_dirs = <<>>

\* generate_bake_dict is not followed pass by pass
GraphIdle ==
    /\ graph_i = 0
    /\ graph_targets = <<>>
    /\ graph_selected = None

\* no Config was built
LoadIdle ==
    /\ common_config_file = None
    /\ config_lists = <<>>
    /\ last_loaded = <<>>
    /\ loads_done = 0
    /\ all_unique = TRUE

\* no command of the cli was run
CmdIdle ==
    /\ init_outcome = None
    /\ activate_outcome = None

\* run_dev.main: the name of the cached image, and the name get_image_name
\* returns for the environment list (registry, keys and fingerprint)
cached_image_name == "cached_isaac_run_dev_image_local:latest"
HashedImageName == "registry/env-image:fingerprint"

RunIdle ==
    /\ run_args = [use_cached_build_image |-> FALSE, build |-> FALSE, build_local |-> FALSE]
    /\ host = [checks_pass |-> TRUE, running |-> FALSE, named |-> TRUE]
    /\ local_images = {}
    /\ registry_images = {}
    /\ run_base_name = HashedImageName
    /\ run_trace = <<>>
    /\ container_image = None
    /\ run_exit = None

LateIdle == ScanIdle /\ IdentIdle /\ GraphIdle /\ LoadIdle /\ CmdIdle /\ RunIdle

OtherIdle == HashIdle /\ SensIdle /\ MainIdle /\ HclIdle /\ ConfigIdle /\ LateIdle

---------------------------------------------------------------------------
(* Actions *)

\* main / get_image_name: image_key = ImageKey.from_key_set(...)
FromKeySet ==
    /\ pc = "start"
    /\ image_key' = from_key_set(image_key_set, key_order)
    /\ image_ids' = image_key'
    /\ pc' = "resolving"
    /\ UNCHANGED <<image_key_set, key_order, docker_search_dirs,
                   ignore_composite_keys, files, dockerfiles, build_plan, bakeVars, otherVars>>

\* mutant: image_ids = image_ids[i+2:], one key too many is consumed
ResolveScanMatch_SkipKey ==
    /\ pc = "resolving"
    /\ image_ids # <<>>
    /\ LET m == Scan(image_ids, docker_search_dirs, files, ignore_composite_keys)
       IN  /\ m # None
           /\ dockerfiles' = Append(dockerfiles, m[1].dockerfile)
           /\ image_ids' = SubSeq(image_ids, m[1].i + 3, Len(image_ids))
    /\ UNCHANGED <<pc, image_key_set, key_order, image_key, docker_search_dirs,
                   ignore_composite_keys, files, build_plan, bakeVars, otherVars>>

\* one pass of the while loop that matches a layer
ResolveScanMatch ==
    /\ pc = "resolving"
    /\ image_ids # <<>>
    /\ LET m == Scan(image_ids, docker_search_dirs, files, ignore_composite_keys)
       IN  /\ m # None
           /\ dockerfiles' = Append(dockerfiles, m[1].dockerfile)
           /\ image_ids' = SubSeq(image_ids, m[1].i + 2, Len(image_ids))
    /\ UNCHANGED <<pc, image_key_set, key_order, image_key, docker_search_dirs,
                   ignore_composite_keys, files, build_plan, bakeVars, otherVars>>

\* one pass of the while loop that matches nothing: return None
ResolveScanFail ==
    /\ pc = "resolving"
    /\ image_ids # <<>>
    /\ Scan(image_ids, docker_search_dirs, files, ignore_composite_keys) = None
    /\ build_plan' = ResolveFailure(dockerfiles, image_key)
    /\ pc' = "failed"
    /\ UNCHANGED <<image_key_set, key_order, image_key, docker_search_dirs,
                   ignore_composite_keys, files, image_ids, dockerfiles, bakeVars, otherVars>>

\* the while loop ends: return ImageBuildPlan(dockerfiles, image_key)
ResolveReturn ==
    /\ pc = "resolving"
    /\ image_ids = <<>>
    /\ build_plan' = Some(NewImageBuildPlan(dockerfiles, image_key))
    /\ pc' = "resolved"
    /\ UNCHANGED <<image_key_set, key_order, image_key, docker_search_dirs,
                   ignore_composite_keys, files, image_ids, dockerfiles, bakeVars, otherVars>>

---------------------------------------------------------------------------
(* Specification of resolve_dockerfiles on an arbitrary image key *)

Init ==
    /\ pc = "resolving"
    /\ image_key \in KeySeqs
    /\ image_key_set = image_key
    /\ key_order = None
    /\ docker_search_dirs \in SearchDirLists
    /\ ignore_composite_keys \in BOOLEAN
    /\ files \in FileSets(MaxFiles)
    /\ image_ids = image_key
    /\ dockerfiles = <<>>
    /\ build_plan = None
    /\ BakeIdle
    /\ OtherIdle

Next == ResolveScanMatch \/ ResolveScanFail \/ ResolveReturn

Spec == Init /\ [][Next]_vars

---------------------------------------------------------------------------
(* Specification of the pipeline of main and get_image_name: from_key_set, *)
(* then resolve_dockerfiles with its default flag                          *)

\* every single-key layer exists in d1; the other files vary
BaseFiles ==
    {[dir |-> "d1", name |-> DockerfileName(ImageKeyStr(<<k>>)), content |-> DefaultContent] :
        k \in Keys}

KeyOrders == {None} \cup {Some(o) : o \in SeqsUpTo(Keys, MaxOrderLen)}

InitOrder ==
    /\ pc = "start"
    /\ image_key_set \in KeySeqs
    /\ key_order \in KeyOrders
    /\ image_key = <<>>
    /\ docker_search_dirs \in SearchDirLists
    /\ ignore_composite_keys = FALSE
    /\ files \in {BaseFiles \cup extra : extra \in FileSets(MaxExtraFiles)}
    /\ image_ids = <<>>
    /\ dockerfiles = <<>>
    /\ build_plan = None
    /\ BakeIdle
    /\ OtherIdle

NextOrder == FromKeySet \/ ResolveScanMatch \/ ResolveScanFail \/ ResolveReturn

SpecOrder == InitOrder /\ [][NextOrder]_vars

---------------------------------------------------------------------------
(* Specification of plan compilation: a resolved plan, then either          *)
(* generate_bake_dict followed by target_names (main, lines 667-681) or     *)
(* get_image_name (run_dev)                                                 *)

Archs == {"aarch64", "x86_64"}
NvcrRegistry == <<"nvcr.io", "/", "team", "/", "repo">>
OtherRegistry == <<"myregistry.example.com">>
Registries == {None, Some(NvcrRegistry), Some(OtherRegistry)}
TargetImageNames == {None, Some(<<"final_image">>)}
BaseImages == {None, Some(<<"ubuntu">>)}
ContextDirs == {None, Some("ctx")}
ExtraBuildArgs ==
    {None,
     Some(<<>>),
     Some(<< <<"FOO", <<"1">> >> >>),
     Some(<< <<"BASE_IMAGE", <<"other">> >> >>),
     Some(<< <<"PLATFORM", <<"custom">> >>, <<"FOO", <<"1">> >> >>)}

BakeArgs ==
    [arch : Archs,
     cache_from_registry : Registries,
     target_image_name : TargetImageNames,
     base_image : BaseImages,
     context_dir : ContextDirs,
     extra_build_args : ExtraBuildArgs,
     nvcr_tag : BOOLEAN]

ImageNameArgs ==
    [cache_from_registry_name : {NvcrRegistry, OtherRegistry},
     file_arch : {"amd64", "arm64"},
     include_hash : BOOLEAN,
     suffix : {None, Some(<<"sfx">>)}]

\* the files a chain was resolved from
ChainFiles(dfs, fs) ==
    {f \in fs : \E j \in 1..Len(dfs) :
        f.dir = dfs[j].dockerfile_path_.dir /\ f.name = dfs[j].dockerfile_path_.name}

\* main, line 667
GenerateBakeDict ==
    /\ pc = "resolved"
    /\ build_plan # None
    /\ \E a \in BakeArgs :
          /\ bake_args' = Some(a)
          /\ docker_bake_dict' = generate_bake_dict(build_plan[1].dockerfiles_, files, a)
    /\ pc' = "baked"
    /\ UNCHANGED <<image_key_set, key_order, image_key, docker_search_dirs,
                   ignore_composite_keys, files, image_ids, dockerfiles, build_plan,
                   plan_target_names, image_name_args, image_name, otherVars>>

\* main, line 681
TargetNames ==
    /\ pc = "baked"
    /\ ~docker_bake_dict.raised
    /\ plan_target_names' = Some(target_names(build_plan[1].dockerfiles_, files))
    /\ pc' = "named"
    /\ UNCHANGED <<image_key_set, key_order, image_key, docker_search_dirs,
                   ignore_composite_keys, files, image_ids, dockerfiles, build_plan,
                   bake_args, docker_bake_dict, image_name_args, image_name, otherVars>>

\* run_dev: get_image_name for the same keys, directories and files
GetImageName ==
    /\ pc = "resolved"
    /\ \E g \in ImageNameArgs :
          /\ image_name_args' = Some(g)
          /\ image_name' =
                [called |-> TRUE,
                 result |-> get_image_name(g.cache_from_registry_name, image_key_set,
                                g.file_arch, g.include_hash, g.suffix,
                                docker_search_dirs, files)]
    /\ pc' = "image_named"
    /\ UNCHANGED <<image_key_set, key_order, image_key, docker_search_dirs,
                   ignore_composite_keys, files, image_ids, dockerfiles, build_plan,
                   bake_args, docker_bake_dict, plan_target_names, otherVars>>

InitBake ==
    /\ pc = "resolved"
    /\ image_key \in KeySeqs
    /\ image_key_set = image_key
    /\ key_order = None
    /\ docker_search_dirs \in SearchDirLists
    /\ ignore_composite_keys = FALSE
    /\ files \in FileSets(MaxFiles)
    /\ build_plan = resolve_dockerfiles(image_key, docker_search_dirs, files,
                                        ignore_composite_keys)
    /\ build_plan # None
    /\ files = ChainFiles(build_plan[1].dockerfiles_, files)
    /\ image_ids = <<>>
    /\ dockerfiles = build_plan[1].dockerfiles_
    /\ BakeIdle
    /\ OtherIdle

NextBake == GenerateBakeDict \/ TargetNames \/ GetImageName

SpecBake == InitBake /\ [][NextBake]_vars

---------------------------------------------------------------------------
(* Properties of resolve_dockerfiles *)

RECURSIVE Flatten(_)
Flatten(ss) == IF ss = <<>> THEN <<>> ELSE ss[1] \o Flatten(Tail(ss))

LayerKeys(dfs) == [j \in 1..Len(dfs) |-> dfs[j].image_key_]
Terminal == pc \in {"resolved", "failed"}

\* C1: the composite keys of the layers of a returned chain, concatenated in
\* chain order, are exactly the input key sequence: every layer covers at
\* least one key and the layers leave no gap and do not overlap.
C1_ChainCoverage ==
    build_plan # None =>
        LET dfs == build_plan[1].dockerfiles_
        IN  /\ Flatten(LayerKeys(dfs)) = image_key
            /\ \A j \in 1..Len(dfs) : dfs[j].image_key_ # <<>>
            /\ Join(<<".">>, [j \in 1..Len(dfs) |-> ImageKeyStr(dfs[j].image_key_)])
                   = ImageKeyStr(image_key)

C1_Witness ==
    /\ build_plan # None
    /\ Len(image_key) = 3
    /\ Len(build_plan[1].dockerfiles_) = 2

\* the orderings in which the keys of s can be supplied
Perms(s) == {q \in KeySeqs : Len(q) = Len(s) /\ Range(q) = Range(s)}

\* C2: whatever the order in which the keys of the set are supplied, with the
\* preference list and the search directories fixed, from_key_set yields the
\* same key sequence and resolve_dockerfiles the same result (the same layers
\* from the same directories in the same order, or the same failure).
C2_OrderIndependence ==
    \A q \in Perms(image_key_set) :
        /\ pc # "start" => image_key = from_key_set(q, key_order)
        /\ Terminal =>
              build_plan = resolve_dockerfiles(from_key_set(q, key_order),
                               docker_search_dirs, files, ignore_composite_keys)

C2_Witness ==
    /\ pc = "resolved"
    /\ Len(image_key_set) = 3
    /\ image_key_set # image_key
    /\ key_order # None
    /\ Len(build_plan[1].dockerfiles_) = 2

\* the keys that were still unmatched when layer j was appended
RemainingBefore(dfs, j) ==
    SubSeq(image_key, Len(Flatten(LayerKeys(SubSeq(dfs, 1, j - 1)))) + 1, Len(image_key))

FileInSomeDir(keys) ==
    \E n \in 1..Len(docker_search_dirs) :
        is_file(docker_search_dirs[n], DockerfileName(ImageKeyStr(keys)), files)

\* layer j is the longest prefix of the keys remaining before it that has a
\* file in a search directory, taken from the first directory holding it
LongestMatch(dfs, j) ==
    LET rem == RemainingBefore(dfs, j)
        L == Len(dfs[j].image_key_)
    IN  /\ L >= 1 /\ L <= Len(rem)
        /\ dfs[j].image_key_ = SubSeq(rem, 1, L)
        /\ dfs[j].dockerfile_path_.name = DockerfileName(ImageKeyStr(SubSeq(rem, 1, L)))
        /\ \A L2 \in (L + 1)..Len(rem) : ~FileInSomeDir(SubSeq(rem, 1, L2))
        /\ \E n \in 1..Len(docker_search_dirs) :
              /\ docker_search_dirs[n] = dfs[j].context_dir_
              /\ dfs[j].dockerfile_path_.dir = docker_search_dirs[n]
              /\ is_file(docker_search_dirs[n], dfs[j].dockerfile_path_.name, files)
              /\ \A n2 \in 1..(n - 1) :
                    ~is_file(docker_search_dirs[n2], dfs[j].dockerfile_path_.name, files)

C3_EveryLayerLongest == \A j \in 1..Len(dockerfiles) : LongestMatch(dockerfiles, j)

\* keys (a, b) with both Dockerfile.a.b and Dockerfile.a in the search path
C3_ExampleCase ==
    /\ image_key = <<"a", "b">>
    /\ FileInSomeDir(<<"a", "b">>)
    /\ FileInSomeDir(<<"a">>)

C3_ExampleResult ==
    /\ pc = "resolved"
    /\ build_plan # None
    /\ LayerKeys(build_plan[1].dockerfiles_) = << <<"a", "b">> >>

\* C3 as stated: every appended layer is the longest match from the first
\* directory holding it, and keys (a, b) with Dockerfile.a.b and Dockerfile.a
\* present always resolve to the single layer a.b.
C3_AsStated ==
    /\ C3_EveryLayerLongest
    /\ (C3_ExampleCase /\ Terminal) => C3_ExampleResult

\* C3 amended: every appended layer is the longest match from the first
\* directory holding it (for either value of ignore_composite_keys), and keys
\* (a, b) with Dockerfile.a.b and Dockerfile.a present resolve to the single
\* layer a.b when ignore_composite_keys is false; when it is true the scan of
\* two remaining keys tries no candidate and resolution returns None.
C3_LongestMatch ==
    /\ C3_EveryLayerLongest
    /\ (C3_ExampleCase /\ Terminal /\ ~ignore_composite_keys) => C3_ExampleResult
    /\ (C3_ExampleCase /\ Terminal /\ ignore_composite_keys) =>
            (pc = "failed" /\ build_plan = None)

C3_Witness ==
    /\ C3_ExampleCase
    /\ ~ignore_composite_keys
    /\ C3_ExampleResult
    /\ docker_search_dirs = <<"d1", "d2">>
    /\ build_plan[1].dockerfiles_[1].context_dir_ = "d2"

\* C4: resolve_dockerfiles returns None or a chain covering the whole key
\* sequence; after a failed scan the layers matched so far are not returned.
C4_AllOrNothing ==
    /\ pc = "failed" => build_plan = None
    /\ build_plan # None =>
          /\ pc = "resolved"
          /\ image_ids = <<>>
          /\ Len(Flatten(LayerKeys(build_plan[1].dockerfiles_))) = Len(image_key)
    /\ Terminal => (build_plan = None \/ build_plan[1].dockerfiles_ = dockerfiles)

C4_Witness ==
    /\ pc = "failed"
    /\ dockerfiles # <<>>
    /\ image_ids # <<>>
    /\ build_plan = None

---------------------------------------------------------------------------
(* Properties of generate_bake_dict, target_names and get_image_name *)

BakeCalled == docker_bake_dict.called
Baked == docker_bake_dict.called /\ ~docker_bake_dict.raised
A == bake_args[1]
T == docker_bake_dict.targets
Chain == build_plan[1].dockerfiles_
N == Len(Chain)
FinalRequested == A.target_image_name # None
ArchSuffix == IF A.arch = "aarch64" THEN "arm64" ELSE "amd64"

\* the first N targets are the real ones, one per layer and in chain order; a
\* retag target, if any, follows them
RealTargetsShape ==
    /\ Len(T) = N + (IF FinalRequested THEN 1 ELSE 0)
    /\ \A i \in 1..N :
          /\ T[i][1] # FinalTargetKey
          /\ T[i][2].dockerfile = Some(Chain[i].dockerfile_path_.name)
          /\ T[i][2].dockerfile_inline = None
    /\ \A i, j \in 1..Len(T) : i # j => T[i][1] # T[j][1]
    /\ FinalRequested <=> (\E n \in 1..Len(T) : T[n][1] = FinalTargetKey)
    /\ FinalRequested => T[N + 1][2].dockerfile_inline # None

DependencyChain ==
    /\ N >= 1 => T[1][2].depends_on = None
    /\ \A i \in 2..N :
          /\ T[i][2].depends_on = Some(<<T[i - 1][1]>>)
          /\ T[i - 1][2].name = T[i - 1][1]

JoinedKeys(i) == Join(<<"-">>, [j \in 1..i |-> ImageKeyStr(Chain[j].image_key_)])

ExtraHasKey(k) == Truthy(A.extra_build_args) /\ DictHas(A.extra_build_args[1], k)
StageArgsOf(i) == T[i][2].args[1]

BaseImageChaining ==
    /\ \A i \in 2..N :
          /\ DictHas(StageArgsOf(i), "BASE_IMAGE")
          /\ DictGet(StageArgsOf(i), "BASE_IMAGE") = T[i - 1][2].tags[1]
    /\ N >= 1 =>
          /\ DictHas(StageArgsOf(1), "BASE_IMAGE") <=> A.base_image # None
          /\ A.base_image # None =>
                DictGet(StageArgsOf(1), "BASE_IMAGE") = A.base_image[1]

\* C7 as stated: for any combination of overrides, BASE_IMAGE of stage i > 0
\* is the primary tag of stage i-1, and stage 0 has BASE_IMAGE exactly when a
\* base image override was supplied, with that value.
C7_AsStated == Baked => BaseImageChaining

\* C7 amended: the same whenever the extra build arguments do not supply the
\* key BASE_IMAGE; when they do, BASE_IMAGE of every stage is the caller's
\* value.
C7_BaseImageChaining ==
    /\ (Baked /\ ~ExtraHasKey("BASE_IMAGE")) => BaseImageChaining
    /\ (Baked /\ ExtraHasKey("BASE_IMAGE")) =>
          \A i \in 1..N :
              /\ DictHas(StageArgsOf(i), "BASE_IMAGE")
              /\ DictGet(StageArgsOf(i), "BASE_IMAGE")
                    = DictGet(A.extra_build_args[1], "BASE_IMAGE")

C7_Witness ==
    /\ Baked
    /\ N = 2
    /\ A.base_image # None
    /\ A.cache_from_registry = Some(NvcrRegistry)
    /\ ~ExtraHasKey("BASE_IMAGE")
    /\ DictGet(StageArgsOf(2), "BASE_IMAGE") = T[1][2].tags[1]
    /\ DictGet(StageArgsOf(1), "BASE_IMAGE") = A.base_image[1]

StartsWith(s, prefix) == Len(s) >= Len(prefix) /\ SubSeq(s, 1, Len(prefix)) = prefix
EndsWith(s, suffix) ==
    Len(s) >= Len(suffix) /\ SubSeq(s, Len(s) - Len(suffix) + 1, Len(s)) = suffix

\* C8: the primary tag of every real stage is <registry>:<name>-<arch> when
\* the registry name contains nvcr.io and <registry>/<name>-<arch>:latest
\* otherwise, <arch> being arm64 for aarch64 and amd64 otherwise;
\* get_image_name chooses between the colon form and the path form by the
\* same test on the registry name.
C8_TagFormat ==
    /\ Baked =>
          \A i \in 1..N :
              LET reg == IF A.cache_from_registry = None THEN <<"None">>
                         ELSE A.cache_from_registry[1]
              IN  IF "nvcr.io" \in Range(reg)
                  THEN T[i][2].tags[1] = reg \o <<":">> \o T[i][1] \o <<"-", ArchSuffix>>
                  ELSE T[i][2].tags[1] =
                           reg \o <<"/">> \o T[i][1] \o <<"-", ArchSuffix, ":", "latest">>
    /\ (image_name.called /\ image_name.result # None) =>
          LET g == image_name_args[1]
              reg == g.cache_from_registry_name
              r == image_name.result[1]
          IN  IF "nvcr.io" \in Range(reg)
              THEN /\ StartsWith(r, reg \o <<":">>)
                   /\ EndsWith(r, <<"-", g.file_arch>>)
              ELSE /\ StartsWith(r, reg \o <<"/">>)
                   /\ EndsWith(r, <<"-", g.file_arch, ":", "latest">>)

C8_Witness ==
    /\ Baked
    /\ N = 2
    /\ A.arch = "aarch64"
    /\ A.cache_from_registry = Some(NvcrRegistry)
    /\ T[2][2].tags[1] = NvcrRegistry \o <<":">> \o T[2][1] \o <<"-", "arm64">>

C8_WitnessImageName ==
    /\ image_name.called
    /\ image_name.result # None
    /\ image_name_args[1].cache_from_registry_name = OtherRegistry
    /\ image_name_args[1].include_hash
    /\ Len(image_key_set) = 2

\* the value the compiler sets for argument k of stage i
CompilerArg(i, k) ==
    IF k = "PLATFORM" THEN <<ArchSuffix>>
    ELSE IF i = 1 THEN A.base_image[1]
    ELSE T[i - 1][2].tags[1]
CompilerKeys(i) ==
    {"PLATFORM"} \cup (IF i > 1 \/ A.base_image # None THEN {"BASE_IMAGE"} ELSE {})
ExtraKeys == IF A.extra_build_args = None THEN {}
             ELSE {A.extra_build_args[1][n][1] : n \in 1..Len(A.extra_build_args[1])}

\* C9: with extra build arguments supplied, the argument map of every stage
\* target holds every supplied key with the caller's value, also where the
\* compiler had set the key, and every compiler-set argument whose key was
\* not supplied keeps its value.
C9_ExtraBuildArgs ==
    (Baked /\ A.extra_build_args # None) =>
        \A i \in 1..N :
            /\ T[i][2].args # None
            /\ \A k \in ExtraKeys :
                  /\ DictHas(StageArgsOf(i), k)
                  /\ DictGet(StageArgsOf(i), k) = DictGet(A.extra_build_args[1], k)
            /\ \A k \in CompilerKeys(i) \ ExtraKeys :
                  /\ DictHas(StageArgsOf(i), k)
                  /\ DictGet(StageArgsOf(i), k) = CompilerArg(i, k)
            /\ Range(DictKeys(StageArgsOf(i))) = CompilerKeys(i) \cup ExtraKeys

C9_Witness ==
    /\ Baked
    /\ N = 2
    /\ ExtraHasKey("PLATFORM")
    /\ DictGet(StageArgsOf(1), "PLATFORM") = <<"custom">>
    /\ DictGet(StageArgsOf(2), "FOO") = <<"1">>
    /\ DictGet(StageArgsOf(2), "BASE_IMAGE") = T[1][2].tags[1]

RetagTarget ==
    /\ Len(T) = N + 1
    /\ N >= 1
    /\ T[N + 1][1] = FinalTargetKey
    /\ T[N + 1][2].dockerfile_inline = Some(<<"FROM", " ">> \o T[N][2].tags[1])
    /\ T[N + 1][2].dockerfile = None
    /\ T[N + 1][2].depends_on = Some(<<T[N][1]>>)
    /\ T[N + 1][2].tags = <<A.target_image_name[1]>>
    /\ \A n \in 1..N : T[n][1] # FinalTargetKey /\ T[n][2].dockerfile_inline = None

NoRetagTarget ==
    \A n \in 1..Len(T) : T[n][1] # FinalTargetKey /\ T[n][2].dockerfile_inline = None

---------------------------------------------------------------------------
(* Specification of ImageBuildPlan.md5hash step by step: the processes of   *)
(* one machine share /tmp/dockerhash.tmp, each has its own working          *)
(* directory, and files can disappear between resolution and fingerprinting *)

MaxCalls == 2

\* a search directory given as a relative path (main, line 637: --context_dir)
RelDir == "rel"
HashDirs == Dirs \cup {RelDir}
Contents == {"c1", "c2"}
HashKeys == {"a", "b"}
HashKeySeqs == SeqsUpTo(HashKeys, Cardinality(HashKeys))
HashNames == {DockerfileName(ImageKeyStr(ks)) : ks \in HashKeySeqs \ {<<>>}}
HashFiles == {[dir |-> d, name |-> n, content |-> c] :
                 d \in HashDirs, n \in HashNames, c \in Contents}
\* a path names one file
IsFileSystem(fs) == \A f, g \in fs : (f.dir = g.dir /\ f.name = g.name) => f = g
HashSearchDirLists == {<<"d1", "d2">>, <<"d2", "d1">>, <<RelDir, "d1">>}
\* what an earlier run left in /tmp/dockerhash.tmp
StaleTmp == <<"stale">>

Reverse(s) == [i \in 1..Len(s) |-> s[Len(s) + 1 - i]]

\* os.chdir(path) from the directory from: the new working directory, or None
\* when it raises FileNotFoundError; RelDir exists below StartDir only
Chdir(from, path) ==
    IF path = RelDir
    THEN IF from = StartDir THEN Some(RelDir) ELSE None
    ELSE Some(path)

\* md5sum {tmp_file} followed by .partition(' ')[0]
Md5sumOfTmp(tmp) == IF tmp = None THEN <<"md5sum:">> ELSE Md5(tmp[1])

Returned(v) == [raised |-> FALSE, value |-> v]
Raised(e) == [raised |-> TRUE, value |-> <<e>>]

RECURSIVE AloneLoop(_, _, _, _)
\* the loop of md5hash and its return when no other process runs: dir is the
\* working directory, text the content of the temporary file
AloneLoop(sorted, dir, fs, text) ==
    IF sorted = <<>> THEN Returned(Md5(text))
    ELSE LET to == Chdir(dir, sorted[1].context_dir_)
         IN  IF to = None THEN Raised("FileNotFoundError")
             ELSE AloneLoop(Tail(sorted), to[1], fs,
                            text \o Md5sumLine([sorted[1] EXCEPT !.context_dir_ = to[1]], fs))

\* the outcome of ImageBuildPlan(dfs).md5hash() begun in dir, run alone
Md5hashAlone(dfs, dir, fs) == AloneLoop(SortedByImageKey(dfs), dir, fs, <<>>)

HashSorted(p) == SortedByImageKey(hash_arg[p])

\* the orders in which a caller can hold the Dockerfiles of a plan
ListOrders(dfs) ==
    {[i \in 1..Len(dfs) |-> dfs[f[i]]] :
        f \in {g \in [1..Len(dfs) -> 1..Len(dfs)] : \A i, j \in 1..Len(dfs) : i # j => g[i] # g[j]}}

hashRest == <<pc, image_key_set, key_order, image_key, docker_search_dirs,
              ignore_composite_keys, image_ids, dockerfiles, build_plan, bakeVars,
              sensVars, mainVars, hclVars, configVars, lateVars>>

\* the md5hash calls begun so far
CallsBegun(p) == Len(hash_returns[p]) + (IF hash_pc[p] = "idle" THEN 0 ELSE 1)
TotalCalls == CallsBegun("p1") + CallsBegun("p2")

\* a caller invokes md5hash on its plan, the list in any order
Md5hashCall(p) ==
    /\ hash_pc[p] = "idle"
    /\ TotalCalls < MaxCalls
    /\ \E arg \in ListOrders(hash_plan[p]) : hash_arg' = [hash_arg EXCEPT ![p] = arg]
    /\ hash_entry' = [hash_entry EXCEPT
                         ![p] = Some([cwd |-> cwd[p], tmp_file |-> tmp_file, files |-> files])]
    /\ hash_overlapped' = (hash_overlapped \/ \E q \in Procs \ {p} : hash_pc[q] # "idle")
    /\ hash_pc' = [hash_pc EXCEPT ![p] = "rm"]
    /\ UNCHANGED <<files, cwd, tmp_file, hash_plan, hash_i, hash_returns, hashRest>>

\* subprocess.getoutput(f'rm -Rf {tmp_file}')
Md5hashRm(p) ==
    /\ hash_pc[p] = "rm"
    /\ tmp_file' = None
    /\ hash_pc' = [hash_pc EXCEPT ![p] = "touch"]
    /\ UNCHANGED <<files, cwd, hash_plan, hash_arg, hash_i, hash_returns, hash_entry,
                   hash_overlapped, hashRest>>

\* subprocess.getoutput(f'touch {tmp_file}'), then the loop is entered
Md5hashTouch(p) ==
    /\ hash_pc[p] = "touch"
    /\ tmp_file' = IF tmp_file = None THEN Some(<<>>) ELSE tmp_file
    /\ hash_i' = [hash_i EXCEPT ![p] = 1]
    /\ hash_pc' = [hash_pc EXCEPT ![p] = IF hash_arg[p] = <<>> THEN "sum" ELSE "chdir"]
    /\ UNCHANGED <<files, cwd, hash_plan, hash_arg, hash_returns, hash_entry,
                   hash_overlapped, hashRest>>

\* os.chdir(d.context_dir_): FileNotFoundError leaves md5hash
Md5hashChdir(p) ==
    /\ hash_pc[p] = "chdir"
    /\ LET to == Chdir(cwd[p], HashSorted(p)[hash_i[p]].context_dir_)
       IN  IF to = None
           THEN /\ hash_returns' = [hash_returns EXCEPT
                                       ![p] = Append(@, Raised("FileNotFoundError"))]
                /\ hash_pc' = [hash_pc EXCEPT ![p] = "idle"]
                /\ cwd' = cwd
           ELSE /\ cwd' = [cwd EXCEPT ![p] = to[1]]
                /\ hash_pc' = [hash_pc EXCEPT ![p] = "md5sum"]
                /\ hash_returns' = hash_returns
    /\ UNCHANGED <<files, tmp_file, hash_plan, hash_arg, hash_i, hash_entry,
                   hash_overlapped, hashRest>>

\* subprocess.getoutput(f"md5sum {name} >> {tmp_file}") in the working directory:
\* the shell creates the temporary file when it is gone
Md5hashMd5sum(p) ==
    /\ hash_pc[p] = "md5sum"
    /\ LET d == HashSorted(p)[hash_i[p]]
           line == Md5sumLine([d EXCEPT !.context_dir_ = cwd[p]], files)
           old == IF tmp_file = None THEN <<>> ELSE tmp_file[1]
       IN  tmp_file' = Some(old \o line)
    /\ hash_i' = [hash_i EXCEPT ![p] = @ + 1]
    /\ hash_pc' = [hash_pc EXCEPT
                      ![p] = IF hash_i[p] = Len(hash_arg[p]) THEN "sum" ELSE "chdir"]
    /\ UNCHANGED <<files, cwd, hash_plan, hash_arg, hash_returns, hash_entry,
                   hash_overlapped, hashRest>>

\* hash_value = subprocess.getoutput(f"md5sum {tmp_file}").partition(' ')[0]
Md5hashReturn(p) ==
    /\ hash_pc[p] = "sum"
    /\ hash_returns' = [hash_returns EXCEPT ![p] = Append(@, Returned(Md5sumOfTmp(tmp_file)))]
    /\ hash_pc' = [hash_pc EXCEPT ![p] = "idle"]
    /\ UNCHANGED <<files, cwd, tmp_file, hash_plan, hash_arg, hash_i, hash_entry,
                   hash_overlapped, hashRest>>

\* the environment: a file of a resolved layer is deleted after the resolution
\* and before the fingerprints are computed
DeleteFile ==
    /\ TotalCalls = 0
    /\ \E f \in files : files' = files \ {f}
    /\ UNCHANGED <<hashVars, hashRest>>

InitHash ==
    /\ pc = "hashing"
    /\ image_key \in HashKeySeqs
    /\ image_key_set = image_key
    /\ key_order = None
    /\ docker_search_dirs \in HashSearchDirLists
    /\ ignore_composite_keys = FALSE
    /\ files \in {fs \in SubsetsUpTo(HashFiles, MaxFiles) : IsFileSystem(fs)}
    /\ build_plan = resolve_dockerfiles(image_key, docker_search_dirs, files,
                                        ignore_composite_keys)
    /\ build_plan # None
    /\ image_ids = <<>>
    /\ dockerfiles = build_plan[1].dockerfiles_
    /\ BakeIdle
    /\ LET dirs2 == Reverse(docker_search_dirs)
           plan2 == resolve_dockerfiles(image_key, dirs2, files, ignore_composite_keys)
       IN  /\ plan2 # None
              /\ hash_plan = [p \in Procs |-> IF p = "p1" THEN dockerfiles
                                              ELSE plan2[1].dockerfiles_]
    /\ files = UNION {ChainFiles(hash_plan[p], files) : p \in Procs}
    /\ cwd = [p \in Procs |-> StartDir]
    /\ tmp_file \in {None, Some(StaleTmp)}
    /\ hash_pc = [p \in Procs |-> "idle"]
    /\ hash_arg = [p \in Procs |-> <<>>]
    /\ hash_i = [p \in Procs |-> 0]
    /\ hash_returns = [p \in Procs |-> <<>>]
    /\ hash_entry = [p \in Procs |-> None]
    /\ hash_overlapped = FALSE
    /\ SensIdle
    /\ MainIdle
    /\ HclIdle
    /\ ConfigIdle
    /\ LateIdle

NextHash ==
    \/ \E p \in Procs : Md5hashCall(p)
    \/ \E p \in Procs : Md5hashRm(p)
    \/ \E p \in Procs : Md5hashTouch(p)
    \/ \E p \in Procs : Md5hashChdir(p)
    \/ \E p \in Procs : Md5hashMd5sum(p)
    \/ \E p \in Procs : Md5hashReturn(p)
    \/ DeleteFile

SpecHash == InitHash /\ [][NextHash]_vars

---------------------------------------------------------------------------
(* Properties of ImageBuildPlan.md5hash *)

\* the file a Dockerfile object points at
FileOf(d, fs) == {f \in fs : f.dir = d.dockerfile_path_.dir /\ f.name = d.dockerfile_path_.name}

\* no file of a resolved layer was deleted
FilesIntact ==
    \A p \in Procs : \A j \in 1..Len(hash_plan[p]) : FileOf(hash_plan[p][j], files) # {}

\* the two plans hold equally named, equal-content files, wherever discovered
SameDefinitions ==
    /\ Len(hash_plan["p1"]) = Len(hash_plan["p2"])
    /\ \A j \in 1..Len(hash_plan["p1"]) :
          /\ hash_plan["p1"][j].image_key_ = hash_plan["p2"][j].image_key_
          /\ {f.content : f \in FileOf(hash_plan["p1"][j], files)}
                = {f.content : f \in FileOf(hash_plan["p2"][j], files)}

AllOutcomes == UNION {Range(hash_returns[p]) : p \in Procs}

\* C11 as stated: while no file changes and no two calls overlap, every call of
\* md5hash on the same layer definitions returns the same fingerprint, in
\* whatever order the list holds them and from whichever search directory the
\* equally named, equal-content files were discovered.
C11_AsStated ==
    (FilesIntact /\ ~hash_overlapped /\ SameDefinitions)
        => \A r, s \in AllOutcomes : ~r.raised /\ r = s

\* the same for plans resolved from absolute search directories only
AbsolutePlans ==
    \A p \in Procs : \A j \in 1..Len(hash_plan[p]) : hash_plan[p][j].context_dir_ # RelDir
Md5hashDeterministicAbsolute == AbsolutePlans => C11_AsStated

---------------------------------------------------------------------------
(* Specification of fingerprints under a content change: target_names of a  *)
(* resolved plan, a rewrite of one layer's file, target_names again         *)

sensRest == <<image_key_set, key_order, image_key, docker_search_dirs,
              ignore_composite_keys, image_ids, dockerfiles, build_plan, bakeVars,
              hashVars, mainVars, hclVars, configVars, lateVars>>

\* [fingerprint, target name] of every chain-prefix: ImageBuildPlan(dfs[:i+1])
PrefixNames(dfs, fs) ==
    [i \in 1..Len(dfs) |->
        [md5hash |-> md5hash(SubSeq(dfs, 1, i), fs),
         target_name |-> target_name(SubSeq(dfs, 1, i), fs)]]

\* build_plan.target_names() before and after the rewrite
PrefixTargetNames ==
    /\ pc \in {"resolved", "written"}
    /\ prefix_names' = Append(prefix_names, PrefixNames(build_plan[1].dockerfiles_, files))
    /\ pc' = IF pc = "resolved" THEN "named" ELSE "renamed"
    /\ UNCHANGED <<files, written_layer, sensRest>>

\* fs with the content of the file of the Dockerfile d replaced by c
WriteFile(d, c, fs) ==
    {IF f \in FileOf(d, fs) THEN [f EXCEPT !.content = c] ELSE f : f \in fs}

\* the environment: the file of one layer gets another content
WriteLayerFile ==
    /\ pc = "named"
    /\ \E k \in 1..Len(build_plan[1].dockerfiles_) :
          \E c \in Contents :
             /\ \A f \in FileOf(build_plan[1].dockerfiles_[k], files) : f.content # c
             /\ files' = WriteFile(build_plan[1].dockerfiles_[k], c, files)
             /\ written_layer' = Some(k)
    /\ pc' = "written"
    /\ UNCHANGED <<prefix_names, sensRest>>

InitSens ==
    /\ pc = "resolved"
    /\ image_key \in KeySeqs
    /\ image_key_set = image_key
    /\ key_order = None
    /\ docker_search_dirs \in SearchDirLists
    /\ ignore_composite_keys = FALSE
    /\ files \in FileSets(MaxFiles)
    /\ build_plan = resolve_dockerfiles(image_key, docker_search_dirs, files,
                                        ignore_composite_keys)
    /\ build_plan # None
    /\ files = ChainFiles(build_plan[1].dockerfiles_, files)
    /\ image_ids = <<>>
    /\ dockerfiles = build_plan[1].dockerfiles_
    /\ BakeIdle
    /\ OtherIdle

NextSens == PrefixTargetNames \/ WriteLayerFile

SpecSens == InitSens /\ [][NextSens]_vars

\* C12: with the collision-free hash, rewriting the file of the layer at
\* position k (counted from 1) with another content changes the fingerprint,
\* the target name and the tag of every chain-prefix that contains the layer
\* (length at least k) and leaves those of every shorter prefix unchanged.
C12_FingerprintSensitivity ==
    pc = "renamed" =>
        LET k == written_layer[1]
            before == prefix_names[1]
            after == prefix_names[2]
        IN  /\ Len(before) = Len(after)
            /\ \A i \in 1..Len(before) :
                  IF i >= k
                  THEN /\ before[i].md5hash # after[i].md5hash
                       /\ before[i].target_name # after[i].target_name
                       /\ \A r \in Registries, a \in Archs :
                             TagFor(r, before[i].target_name, a)
                                # TagFor(r, after[i].target_name, a)
                  ELSE before[i] = after[i]

\* a two-layer chain whose second layer was rewritten: the one-layer prefix
\* keeps its fingerprint, the two-layer prefix got another one
C12_Witness ==
    /\ pc = "renamed"
    /\ written_layer = Some(2)
    /\ Len(prefix_names[1]) = 2
    /\ prefix_names[1][1] = prefix_names[2][1]
    /\ prefix_names[1][2].md5hash # prefix_names[2][2].md5hash

---------------------------------------------------------------------------
(* Properties of ImageKey.from_key_set *)

\* the preference list handed to from_key_set, empty when there is none
PreferenceList == IF key_order = None THEN <<>> ELSE key_order[1]

\* C13: from_key_set returns every key of the set exactly once; the keys of
\* the preference list come first, by increasing index in the list, then the
\* other keys in ascending lexicographic order; with an empty or missing
\* preference list that is the lexicographic order of all keys.
C13_KeyOrderingRule ==
    pc # "start" =>
        LET o == PreferenceList
            r == image_key
        IN  /\ Len(r) = Len(image_key_set)
            /\ Range(r) = Range(image_key_set)
            /\ \A i, j \in 1..Len(r) :
                  i < j =>
                     /\ r[j] \in Range(o) => r[i] \in Range(o)
                     /\ (r[i] \in Range(o) /\ r[j] \in Range(o))
                           => IndexOf(o, r[i]) < IndexOf(o, r[j])
                     /\ (r[i] \notin Range(o) /\ r[j] \notin Range(o))
                           => StrLess(r[i], r[j])
            /\ o = <<>> => \A i, j \in 1..Len(r) : i < j => StrLess(r[i], r[j])

\* keys (b, a, c) with the preference list (c): c first, then a, b
C13_Witness ==
    /\ pc # "start"
    /\ image_key_set = <<"b", "a", "c">>
    /\ key_order = Some(<<"c">>)
    /\ image_key = <<"c", "a", "b">>

---------------------------------------------------------------------------
(* Properties of the md5hash calls of SpecHash *)

\* process p has finished a call and is in none
Finished(p) == hash_pc[p] = "idle" /\ hash_returns[p] # <<>>
LastReturn(p) == hash_returns[p][Len(hash_returns[p])]
Entry(p) == hash_entry[p][1]

\* a call made without overlap returns what the loop run alone returns
Md5hashAloneAgrees ==
    ~hash_overlapped =>
        \A p \in Procs :
            Finished(p) => LastReturn(p) = Md5hashAlone(hash_arg[p], Entry(p).cwd, Entry(p).files)

\* C15 as stated: when a process has made a call of md5hash while no other
\* process made one, the files with their contents (the temporary file among
\* them) and the working directory of the process are what they were when
\* the call began.
C15_AsStated ==
    \A p \in Procs :
        (Finished(p) /\ \A q \in Procs \ {p} : CallsBegun(q) = 0)
            => /\ files = Entry(p).files
               /\ tmp_file = Entry(p).tmp_file
               /\ cwd[p] = Entry(p).cwd

\* C16 as stated: under every interleaving of the steps of two processes,
\* a finished call of md5hash has returned what the same call returns when
\* it runs alone.
C16_AsStated ==
    \A p \in Procs :
        Finished(p) => LastReturn(p) = Md5hashAlone(hash_arg[p], Entry(p).cwd, Entry(p).files)

\* the file of some layer of the call of p was gone when the call began
LayerFileGone(p) ==
    \E j \in 1..Len(hash_arg[p]) : FileOf(hash_arg[p][j], Entry(p).files) = {}

\* C17 as stated: a call of md5hash made after the file of one of its layers
\* was deleted ends with an error raised to the caller, not with a
\* fingerprint.
C17_AsStated ==
    \A p \in Procs : (Finished(p) /\ LayerFileGone(p)) => LastReturn(p).raised

---------------------------------------------------------------------------
(* Specification of build_image_layers.main: from_key_set, resolution, the  *)
(* registry logins, the choice of the stages to build and the docker buildx *)
(* invocations, up to the exit status of the process                        *)

mainRest == <<image_key_set, key_order, image_key, docker_search_dirs,
              ignore_composite_keys, files, image_ids, dockerfiles, build_plan, bakeVars,
              hashVars, sensVars, hclVars, configVars, lateVars>>

MainArgs ==
    [verbose : BOOLEAN,
     no_cache : BOOLEAN,
     skip_registry_check : BOOLEAN,
     target_image_name : TargetImageNames]

MainFiles ==
    {[dir |-> "d1", name |-> DockerfileName(ImageKeyStr(<<"a">>)), content |-> DefaultContent],
     [dir |-> "d1", name |-> DockerfileName(ImageKeyStr(<<"b">>)), content |-> DefaultContent],
     [dir |-> "d2", name |-> DockerfileName(ImageKeyStr(<<"a", "b">>)), content |-> DefaultContent]}

\* the lines a run prints
ConfigDump(dirs) == <<"config", dirs>>
ImageKeyLine(keys) == <<"Image key = ", ImageKeyStr(keys)>>
DockerfileCreatedLine(d) == <<"Dockerfile created: image_key = ", DockerfileImageKey(d)>>
CouldNotResolveLine(ids) ==
    <<"Could not resolve Dockerfiles for target image ids: ", ImageKeyStr(ids)>>
ErrorLine == <<"Error: Could not resolve all Dockerfiles.", <<>> >>

\* what main and resolve_dockerfiles have printed when the resolution failed
FailureReport(dirs, key, dfs, ids, verbose) ==
    <<ConfigDump(dirs), ImageKeyLine(key)>>
        \o [j \in 1..Len(dfs) |-> DockerfileCreatedLine(dfs[j])]
        \o (IF verbose THEN <<CouldNotResolveLine(ids)>> ELSE <<>>)
        \o <<ErrorLine>>

Invocation(cmd, ok) == [cmd |-> cmd, ok |-> ok]
BakesDone == Cardinality({i \in 1..Len(invocations) : invocations[i].cmd = "bake"})

\* main, lines 650-652: if not build_plan: print(...); exit(1)
MainUnresolved ==
    /\ pc = "failed"
    /\ report' = FailureReport(docker_search_dirs, image_key, dockerfiles, image_ids,
                               main_args[1].verbose)
    /\ exit_status' = Some(1)
    /\ pc' = "exited"
    /\ UNCHANGED <<main_args, cache_from_login, build_target_names, invocations, mainRest>>

\* main, lines 657-662: check_docker_logins raises when no login succeeds
MainLogin ==
    /\ pc = "resolved"
    /\ \E ok \in BOOLEAN :
          /\ cache_from_login' = Some(ok)
          /\ exit_status' = IF ok THEN None ELSE Some(1)
          /\ pc' = IF ok THEN "logged_in" ELSE "exited"
    /\ UNCHANGED <<main_args, build_target_names, invocations, report, mainRest>>

\* the stages main builds when exists[i] tells whether the tag of stage i is
\* in the registry
StagesToBuild(n, exists, a) ==
    SelectSeq([i \in 1..n |-> i],
              LAMBDA i : ~((~a.skip_registry_check) /\ (exists[i] /\ ~a.no_cache)))

\* main, lines 667-692: compile the plan, choose the stages, return early
\* when there is nothing to build
MainSelectTargets ==
    /\ pc = "logged_in"
    /\ \E exists \in [1..Len(build_plan[1].dockerfiles_) -> BOOLEAN] :
          LET names == StagesToBuild(Len(build_plan[1].dockerfiles_), exists, main_args[1])
              nothing == names = <<>> /\ main_args[1].target_image_name = None
          IN  /\ build_target_names' = names
              /\ exit_status' = IF nothing THEN Some(0) ELSE None
              /\ pc' = IF nothing THEN "exited" ELSE "create"
    /\ UNCHANGED <<main_args, cache_from_login, invocations, report, mainRest>>

\* mutant: a failing docker buildx create ends the run
MainCreateBuilder_Checked ==
    /\ pc = "create"
    /\ \E ok \in BOOLEAN :
          /\ invocations' = Append(invocations, Invocation("create", ok))
          /\ exit_status' = IF ok THEN None ELSE Some(1)
          /\ pc' = IF ok THEN "bake" ELSE "exited"
    /\ UNCHANGED <<main_args, cache_from_login, build_target_names, report, mainRest>>

\* main, lines 703-720: docker buildx create, run without check
MainCreateBuilder ==
    /\ pc = "create"
    /\ \E ok \in BOOLEAN :
          /\ invocations' = Append(invocations, Invocation("create", ok))
          /\ exit_status' = None
          /\ pc' = "bake"
    /\ UNCHANGED <<main_args, cache_from_login, build_target_names, report, mainRest>>

\* mutant: a failed bake leaves main without docker buildx rm
MainBake_NoCleanup ==
    /\ pc = "bake"
    /\ BakesDone < Len(build_target_names)
    /\ \/ /\ invocations' = Append(invocations, Invocation("bake", TRUE))
          /\ exit_status' = None
          /\ pc' = "bake"
       \/ /\ invocations' = Append(invocations, Invocation("bake", FALSE))
          /\ exit_status' = Some(1)
          /\ pc' = "exited"
    /\ UNCHANGED <<main_args, cache_from_login, build_target_names, report, mainRest>>

\* main, lines 724-739: docker buildx bake <stage> with check=True; on
\* failure docker buildx rm, then the exception leaves main
MainBake ==
    /\ pc = "bake"
    /\ BakesDone < Len(build_target_names)
    /\ \/ /\ invocations' = Append(invocations, Invocation("bake", TRUE))
          /\ exit_status' = None
          /\ pc' = "bake"
       \/ \E rm_ok \in BOOLEAN :
             /\ invocations' = invocations \o <<Invocation("bake", FALSE),
                                                Invocation("rm", rm_ok)>>
             /\ exit_status' = Some(1)
             /\ pc' = "exited"
    /\ UNCHANGED <<main_args, cache_from_login, build_target_names, report, mainRest>>

\* main, lines 741-756: docker buildx bake final_target with check=True
MainFinalBake ==
    /\ pc = "bake"
    /\ BakesDone = Len(build_target_names)
    /\ main_args[1].target_image_name # None
    /\ \/ /\ invocations' = Append(invocations, Invocation("final", TRUE))
          /\ exit_status' = None
          /\ pc' = "rm"
       \/ \E rm_ok \in BOOLEAN :
             /\ invocations' = invocations \o <<Invocation("final", FALSE),
                                                Invocation("rm", rm_ok)>>
             /\ exit_status' = Some(1)
             /\ pc' = "exited"
    /\ UNCHANGED <<main_args, cache_from_login, build_target_names, report, mainRest>>

\* main, line 758: docker buildx rm, run without check; main returns
MainRemoveBuilder ==
    /\ \/ pc = "rm"
       \/ /\ pc = "bake"
          /\ BakesDone = Len(build_target_names)
          /\ main_args[1].target_image_name = None
    /\ \E ok \in BOOLEAN : invocations' = Append(invocations, Invocation("rm", ok))
    /\ exit_status' = Some(0)
    /\ pc' = "exited"
    /\ UNCHANGED <<main_args, cache_from_login, build_target_names, report, mainRest>>

InitMain ==
    /\ pc = "start"
    /\ image_key_set \in HashKeySeqs \ {<<>>}
    /\ key_order = None
    /\ image_key = <<>>
    /\ docker_search_dirs \in SearchDirLists
    /\ ignore_composite_keys = FALSE
    /\ files \in SUBSET MainFiles
    /\ image_ids = <<>>
    /\ dockerfiles = <<>>
    /\ build_plan = None
    /\ BakeIdle
    /\ HashIdle
    /\ SensIdle
    /\ HclIdle
    /\ ConfigIdle
    /\ LateIdle
    /\ main_args \in {Some(a) : a \in MainArgs}
    /\ cache_from_login = None
    /\ build_target_names = <<>>
    /\ invocations = <<>>
    /\ report = <<>>
    /\ exit_status = None

NextMain ==
    \/ FromKeySet
    \/ ResolveScanMatch
    \/ ResolveScanFail
    \/ ResolveReturn
    \/ MainUnresolved
    \/ MainLogin
    \/ MainSelectTargets
    \/ MainCreateBuilder
    \/ MainBake
    \/ MainFinalBake
    \/ MainRemoveBuilder

SpecMain == InitMain /\ [][NextMain]_vars

---------------------------------------------------------------------------
(* Properties of main *)

Exited == pc = "exited"
ResolutionSucceeded == build_plan # None
AllInvocationsSucceeded == \A i \in 1..Len(invocations) : invocations[i].ok
AllBakesSucceeded ==
    \A i \in 1..Len(invocations) :
        invocations[i].cmd \in {"bake", "final"} => invocations[i].ok

C14_WitnessLogin ==
    /\ Exited
    /\ ResolutionSucceeded
    /\ invocations = <<>>
    /\ exit_status = Some(1)


\* main has reported a failed resolution
ResolutionReported == report # <<>>
Printed(line) == \E i \in 1..Len(report) : report[i] = line
\* the value resolve_dockerfiles handed to main holds x
OutcomeHolds(x) == \E i \in 1..Len(build_plan) : build_plan[i] = x

\* C18 as stated: when the resolution failed, the outcome handed to the
\* caller holds the unresolved key remainder and the search directories, and
\* the printed report names the remainder and the search directories.
C18_AsStated ==
    ResolutionReported =>
        /\ OutcomeHolds(image_ids)
        /\ OutcomeHolds(docker_search_dirs)
        /\ Printed(CouldNotResolveLine(image_ids)) \/ Printed(ImageKeyLine(image_ids))
        /\ Printed(ConfigDump(docker_search_dirs))

\* the printed report alone names the keys that were left unresolved; this
\* fails for a run without --verbose that resolved a first layer
C18_ReportNamesRemainder ==
    ResolutionReported =>
        Printed(CouldNotResolveLine(image_ids)) \/ Printed(ImageKeyLine(image_ids))

---------------------------------------------------------------------------
(* ImageBuildPlan.as_hcl_str: the text is a sequence of tokens; a target is *)
(* a dict from field names to values, the value of args a dict              *)

RECURSIVE Concat(_)
\* the concatenation of a list of texts
Concat(texts) == IF texts = <<>> THEN <<>> ELSE texts[1] \o Concat(Tail(texts))

Quoted(str) == <<"\"">> \o str \o <<"\"">>

\* quoted_list: '[' + ', '.join(f'"{value}"' ...) + ']'
quoted_list(str_list) ==
    <<"[">> \o Join(<<", ">>, [i \in 1..Len(str_list) |-> Quoted(str_list[i])]) \o <<"]">>

\* the number of characters of a field name
FieldLen(attr_key) ==
    CASE attr_key = "context" -> 7
      [] attr_key = "dockerfile" -> 10
      [] attr_key = "dockerfile-inline" -> 17
      [] attr_key = "tags" -> 4
      [] attr_key = "inherits" -> 8
      [] attr_key = "depends_on" -> 10

\* f'{attr_key:12}': the name, padded with blanks to 12 characters
Padded(attr_key) ==
    <<attr_key>> \o [i \in 1..(IF FieldLen(attr_key) < 12 THEN 12 - FieldLen(attr_key) ELSE 0) |-> " "]

\* write_target_attr(attr_key, processor): one line when the field is present
write_target_attr(target, attr_key, as_list) ==
    IF DictHas(target, attr_key)
    THEN <<"  ">> \o Padded(attr_key) \o <<" = ">>
            \o (IF as_list THEN quoted_list(DictGet(target, attr_key))
                ELSE Quoted(DictGet(target, attr_key)))
            \o <<"\n">>
    ELSE <<>>

\* the args block: the items in the order of the args dict
ArgsBlock(target) ==
    IF DictHas(target, "args")
    THEN LET items == DictGet(target, "args")
         IN  <<"  ", "args", "       = {\n">>
                \o Concat([i \in 1..Len(items) |->
                              <<"    ">> \o items[i][1] \o <<" = ">> \o Quoted(items[i][2])
                                 \o (IF i < Len(items) THEN <<",">> ELSE <<>>) \o <<"\n">>])
                \o <<"  }\n">>
    ELSE <<>>

\* mutant: depends_on is written before the args block
TargetBlock_DependsFirst(name, target) ==
    <<"target ">> \o Quoted(name) \o <<" {\n">>
        \o write_target_attr(target, "context", FALSE)
        \o write_target_attr(target, "dockerfile", FALSE)
        \o write_target_attr(target, "dockerfile-inline", FALSE)
        \o write_target_attr(target, "tags", TRUE)
        \o write_target_attr(target, "inherits", TRUE)
        \o write_target_attr(target, "depends_on", TRUE)
        \o ArgsBlock(target)
        \o <<"}\n\n">>

\* one pass of the loop over targets.items()
TargetBlock(name, target) ==
    <<"target ">> \o Quoted(name) \o <<" {\n">>
        \o write_target_attr(target, "context", FALSE)
        \o write_target_attr(target, "dockerfile", FALSE)
        \o write_target_attr(target, "dockerfile-inline", FALSE)
        \o write_target_attr(target, "tags", TRUE)
        \o write_target_attr(target, "inherits", TRUE)
        \o ArgsBlock(target)
        \o write_target_attr(target, "depends_on", TRUE)
        \o <<"}\n\n">>

\* one pass of the loop over variables.items()
VariableBlock(key, value) ==
    <<"variable ">> \o Quoted(key) \o <<" {\n", "  default = ">> \o Quoted(value)
        \o <<"\n", "}\n\n">>

as_hcl_str(bake_plan_dict) ==
    LET variables == bake_plan_dict.variables
        targets == bake_plan_dict.targets
    IN  Concat([i \in 1..Len(variables) |-> VariableBlock(variables[i][1], variables[i][2])])
           \o Concat([i \in 1..Len(targets) |-> TargetBlock(targets[i][1], targets[i][2])])

---------------------------------------------------------------------------
(* Specification of as_hcl_str: two build graphs that are equal as Python   *)
(* dicts are serialized one after the other                                 *)

MaxFields == 2

hclRest == <<pc, image_key_set, key_order, image_key, docker_search_dirs,
             ignore_composite_keys, files, image_ids, dockerfiles, build_plan, bakeVars,
             hashVars, sensVars, mainVars, configVars, lateVars>>

\* the fields in the order as_hcl_str writes them
FieldOrder == <<"context", "dockerfile", "dockerfile-inline", "tags", "inherits", "args",
                "depends_on">>
FieldNames == Range(FieldOrder)

\* the value a field has in the graphs of the model; the args dict comes in
\* both insertion orders
FieldValues(field) ==
    CASE field = "context" -> {<<"ctx">>}
      [] field = "dockerfile" -> {<<"d1", "/", "Dockerfile", ".", "a">>}
      [] field = "dockerfile-inline" -> {<<"FROM", " ", "img">>}
      [] field = "tags" -> {<< <<"reg", "/", "s1">> >>}
      [] field = "inherits" -> {<< <<"base">> >>}
      [] field = "args" -> {<< <<<<"A">>, <<"1">>>>, <<<<"B">>, <<"2">>>> >>,
                            << <<<<"B">>, <<"2">>>>, <<<<"A">>, <<"1">>>> >>}
      [] field = "depends_on" -> {<< <<"s0">> >>}

\* the dicts holding the fields of the sequence fs, inserted in that order
RECURSIVE TargetsWith(_)
TargetsWith(fs) ==
    IF fs = <<>> THEN {<<>>}
    ELSE {Append(t, <<fs[Len(fs)], v>>) :
             t \in TargetsWith(SubSeq(fs, 1, Len(fs) - 1)), v \in FieldValues(fs[Len(fs)])}

HclTargets == UNION {TargetsWith(fs) : fs \in SeqsUpTo(FieldNames, MaxFields)}

OtherTarget == << <<"tags", << <<"reg", "/", "s0">> >> >> >>
HclVariables == << <<<<"BASE">>, <<"ubuntu">>>> >>

\* the graphs: the stage s1 with any fields, before or behind the stage s0
HclGraphs ==
    UNION {{[variables |-> HclVariables,
             targets |-> << <<<<"s0">>, OtherTarget>>, <<<<"s1">>, t>> >>],
            [variables |-> HclVariables,
             targets |-> << <<<<"s1">>, t>>, <<<<"s0">>, OtherTarget>> >>]} : t \in HclTargets}

\* d == e for Python dicts whose values are no dicts
DictEq(d, e) ==
    /\ Range(DictKeys(d)) = Range(DictKeys(e))
    /\ \A k \in Range(DictKeys(d)) : DictGet(d, k) = DictGet(e, k)

\* t == u for two target dicts: the value of args is a dict
TargetEq(t, u) ==
    /\ Range(DictKeys(t)) = Range(DictKeys(u))
    /\ \A k \in Range(DictKeys(t)) :
          IF k = "args" THEN DictEq(DictGet(t, k), DictGet(u, k))
          ELSE DictGet(t, k) = DictGet(u, k)

\* g == h for two build graphs
GraphEq(g, h) ==
    /\ DictEq(g.variables, h.variables)
    /\ Range(DictKeys(g.targets)) = Range(DictKeys(h.targets))
    /\ \A k \in Range(DictKeys(g.targets)) : TargetEq(DictGet(g.targets, k), DictGet(h.targets, k))

\* main, line 677, on the next graph
AsHclStr ==
    /\ Len(hcl_texts) < Len(bake_plan_dicts)
    /\ hcl_texts' = Append(hcl_texts, as_hcl_str(bake_plan_dicts[Len(hcl_texts) + 1]))
    /\ UNCHANGED <<bake_plan_dicts, hclRest>>

InitHcl ==
    /\ pc = "serializing"
    /\ image_key_set = <<>>
    /\ key_order = None
    /\ image_key = <<>>
    /\ docker_search_dirs = <<>>
    /\ ignore_composite_keys = FALSE
    /\ files = {}
    /\ image_ids = <<>>
    /\ dockerfiles = <<>>
    /\ build_plan = None
    /\ BakeIdle
    /\ HashIdle
    /\ SensIdle
    /\ MainIdle
    /\ bake_plan_dicts \in {gh \in HclGraphs \X HclGraphs : GraphEq(gh[1], gh[2])}
    /\ hcl_texts = <<>>
    /\ ConfigIdle
    /\ LateIdle

NextHcl == AsHclStr

SpecHcl == InitHcl /\ [][NextHcl]_vars

---------------------------------------------------------------------------
(* Properties of as_hcl_str *)

\* the field names in the order in which a text holds them
EmittedFields(text) == SelectSeq(text, LAMBDA t : t \in FieldNames)

\* the fields of the targets of g, target by target, each in FieldOrder
ExpectedFields(g) ==
    Concat([i \in 1..Len(g.targets) |->
               SelectSeq(FieldOrder, LAMBDA f : DictHas(g.targets[i][2], f))])

FixedFieldOrder ==
    \A i \in 1..Len(hcl_texts) : EmittedFields(hcl_texts[i]) = ExpectedFields(bake_plan_dicts[i])

\* g and h hold their variables, their targets and the entries of every args
\* dict in the same order
SameOrders(g, h) ==
    /\ g.variables = h.variables
    /\ DictKeys(g.targets) = DictKeys(h.targets)
    /\ \A i \in 1..Len(g.targets) :
          DictHas(g.targets[i][2], "args")
             => DictGet(g.targets[i][2], "args") = DictGet(h.targets[i][2], "args")

\* C19 as stated: every target's fields are written in the fixed order, and
\* two graphs that are equal as mappings are serialized to the same text.
C19_AsStated ==
    /\ FixedFieldOrder
    /\ Len(hcl_texts) = 2 => hcl_texts[1] = hcl_texts[2]

\* C19: every target's fields are written in the fixed order context,
\* dockerfile, dockerfile-inline, tags, inherits, args, depends_on, whatever
\* their order in the target dict; two graphs that are equal as mappings and
\* hold their variables, targets and args entries in the same order are
\* serialized to the same text.
C19_FieldOrder ==
    /\ FixedFieldOrder
    /\ (Len(hcl_texts) = 2 /\ SameOrders(bake_plan_dicts[1], bake_plan_dicts[2]))
          => hcl_texts[1] = hcl_texts[2]

\* two graphs whose stage s1 holds depends_on before args in one and behind
\* it in the other, serialized to one text with args before depends_on
C19_Witness ==
    /\ Len(hcl_texts) = 2
    /\ bake_plan_dicts[1] # bake_plan_dicts[2]
    /\ SameOrders(bake_plan_dicts[1], bake_plan_dicts[2])
    /\ DictKeys(DictGet(bake_plan_dicts[1].targets, <<"s1">>)) = <<"depends_on", "args">>
    /\ hcl_texts[1] = hcl_texts[2]
    /\ EmittedFields(hcl_texts[1]) = <<"tags", "args", "depends_on">>

---------------------------------------------------------------------------
(* config_loader.load_config: a YAML mapping is a function from its keys to *)
(* values; a value is a scalar or a mapping, told apart by its kind         *)

Scalar(v) == [kind |-> "scalar", v |-> v]
Mapping(items) == [kind |-> "map", items |-> items]
IsMapping(value) == value.kind = "map"

\* ConfigScope, in order of precedence, and the order of _CONFIG_SOURCE_CANDIDATES
ConfigScope == <<"READ_ONLY", "SYSTEM", "USER", "WORKSPACE">>

RECURSIVE deep_merge(_, _)

\* mutant: a mapping of the overlay replaces the mapping of the base
deep_merge_Shallow(base, overlay) ==
    [key \in DOMAIN base \cup DOMAIN overlay |->
        IF key \in DOMAIN overlay THEN overlay[key] ELSE base[key]]

\* _deep_merge(base, overlay)
deep_merge(base, overlay) ==
    [key \in DOMAIN base \cup DOMAIN overlay |->
        IF key \notin DOMAIN overlay THEN base[key]
        ELSE IF IsMapping(overlay[key]) /\ key \in DOMAIN base /\ IsMapping(base[key])
             THEN Mapping(deep_merge(base[key].items, overlay[key].items))
        ELSE overlay[key]]

\* the scopes whose file exists, in the order of ConfigScope
Sources(cf) == SelectSeq([i \in 1..Len(ConfigScope) |-> i], LAMBDA i : cf[i] # None)

RECURSIVE MergeSources(_, _, _)
\* the loop over sources: ValueError at the first document that is no mapping
MergeSources(cf, sources, merged) ==
    IF sources = <<>> THEN [raised |-> None, merged |-> merged]
    ELSE LET overlay == cf[sources[1]][1]
         IN  IF ~IsMapping(overlay) THEN [raised |-> Some("ValueError"), merged |-> <<>>]
             ELSE MergeSources(cf, Tail(sources), deep_merge(merged, overlay.items))

load_config(cf) ==
    IF Sources(cf) = <<>> THEN [raised |-> Some("FileNotFoundError"), merged |-> <<>>]
    ELSE MergeSources(cf, Sources(cf), <<>>)

---------------------------------------------------------------------------
(* Specification of load_config over the scope files *)

configRest == <<pc, image_key_set, key_order, image_key, docker_search_dirs,
                ignore_composite_keys, files, image_ids, dockerfiles, build_plan, bakeVars,
                hashVars, sensVars, mainVars, hclVars, lateVars>>

ConfigScalars == {"s1", "s2"}
NestedKeys == {"u", "v"}
\* the mappings from some of the keys of K to values of V
PartialMaps(K, V) == UNION {[D -> V] : D \in SUBSET K}
\* what a scope can give the key x: a scalar or a mapping of scalars
ConfigValues ==
    {Scalar(v) : v \in ConfigScalars}
        \cup {Mapping(m) : m \in PartialMaps(NestedKeys, {Scalar(v) : v \in ConfigScalars})}
\* the documents of a scope file: a mapping with or without the key x, or a
\* document that is no mapping
ConfigDocuments ==
    {Mapping(m) : m \in PartialMaps({"x"}, ConfigValues)} \cup {Scalar("s1")}

\* cli: config = load_config()
LoadConfig ==
    /\ pc = "config"
    /\ loaded_config' = Some(load_config(config_files))
    /\ pc' = "loaded"
    /\ UNCHANGED <<config_files,
                   image_key_set, key_order, image_key, docker_search_dirs,
                   ignore_composite_keys, files, image_ids, dockerfiles, build_plan,
                   bakeVars, hashVars, sensVars, mainVars, hclVars, lateVars>>

InitConfig ==
    /\ pc = "config"
    /\ image_key_set = <<>>
    /\ key_order = None
    /\ image_key = <<>>
    /\ docker_search_dirs = <<>>
    /\ ignore_composite_keys = FALSE
    /\ files = {}
    /\ image_ids = <<>>
    /\ dockerfiles = <<>>
    /\ build_plan = None
    /\ BakeIdle
    /\ HashIdle
    /\ SensIdle
    /\ MainIdle
    /\ HclIdle
    /\ config_files \in [1..Len(ConfigScope) -> {None} \cup {Some(d) : d \in ConfigDocuments}]
    /\ loaded_config = None
    /\ LateIdle

NextConfig == LoadConfig

SpecConfig == InitConfig /\ [][NextConfig]_vars

---------------------------------------------------------------------------
(* Properties of load_config *)

ScopeIds == 1..Len(ConfigScope)
Loaded == loaded_config # None
Outcome == loaded_config[1]
Merged == Outcome.merged
LoadReturned == Loaded /\ Outcome.raised = None
\* the mapping of the file of scope s
Doc(s) == config_files[s][1].items
Existing == {s \in ScopeIds : config_files[s] # None}
Max(S) == CHOOSE s \in S : \A t \in S : t <= s

KeyPaths == {<<"x">>} \cup {<<"x", n>> : n \in NestedKeys}
\* the mapping items define the key path
DefinesPath(items, path) ==
    /\ path[1] \in DOMAIN items
    /\ \/ Len(path) = 1
       \/ IsMapping(items[path[1]]) /\ path[2] \in DOMAIN items[path[1]].items
ValueAtPath(items, path) ==
    IF Len(path) = 1 THEN items[path[1]] ELSE items[path[1]].items[path[2]]
Defining(path) == {s \in Existing : DefinesPath(Doc(s), path)}
\* the scopes that give the key path a mapping
MappingScopes(path) == {s \in Defining(path) : IsMapping(ValueAtPath(Doc(s), path))}

\* the highest scope defining the key x gives it a mapping
TopIsMapping == IsMapping(Doc(Max(Defining(<<"x">>)))["x"])

Replacing(key) == {s \in Existing : key \in DOMAIN Doc(s) /\ ~IsMapping(Doc(s)[key])}
\* the scopes whose mapping of the key is kept: those above the last scope
\* that gives the key something that is no mapping
Kept(key) ==
    {s \in MappingScopes(<<key>>) : \A t \in Replacing(key) : t < s}
KeptDefining(key, n) == {s \in Kept(key) : n \in DOMAIN Doc(s)[key].items}

---------------------------------------------------------------------------
(* Specification of resolve_dockerfiles followed through its loops: the    *)
(* while loop over the remaining keys and the for loop over the index i    *)

scanRest == <<image_key_set, key_order, image_key, docker_search_dirs,
              ignore_composite_keys, files, bakeVars,
              hashVars, sensVars, mainVars, hclVars, configVars, identVars, graphVars, loadVars, cmdVars, runVars>>

\* the candidate of the for loop at index i
layer_image_ids == SubSeq(image_ids, 1, scan_i[1] + 1)
layer_file_name == DockerfileName(ImageKeyStr(layer_image_ids))

\* while image_ids: unmatched_id_count = len(image_ids); the for loop begins
WhileEnter ==
    /\ pc = "while"
    /\ image_ids # <<>>
    /\ scan_len' = Len(image_ids)
    /\ scan_i' = Some(Len(image_ids) - 1)
    /\ scan_tried' = <<>>
    /\ pc' = "for"
    /\ UNCHANGED <<image_ids, dockerfiles, build_plan, scanRest>>

\* if ignore_composite_keys and i == 1: break; nothing was matched in this
\* pass, so unmatched_id_count == len(image_ids) and None is returned
ForBreak ==
    /\ pc = "for"
    /\ scan_i # None
    /\ scan_i[1] >= 0
    /\ ignore_composite_keys /\ scan_i[1] = 1
    /\ build_plan' = ResolveFailure(dockerfiles, image_key)
    /\ scan_i' = None
    /\ pc' = "failed"
    /\ UNCHANGED <<image_ids, dockerfiles, scan_len, scan_tried, scanRest>>

\* mutant: after a miss the index drops by two
ForMiss_SkipLength ==
    /\ pc = "for"
    /\ scan_i # None
    /\ scan_i[1] >= 0
    /\ ~(ignore_composite_keys /\ scan_i[1] = 1)
    /\ FirstDir(docker_search_dirs, layer_file_name, files) = None
    /\ scan_tried' = Append(scan_tried, scan_i[1] + 1)
    /\ scan_i' = Some(scan_i[1] - 2)
    /\ UNCHANGED <<pc, image_ids, dockerfiles, build_plan, scan_len, scanRest>>

\* no search directory holds the candidate: the for loop goes on with i - 1
ForMiss ==
    /\ pc = "for"
    /\ scan_i # None
    /\ scan_i[1] >= 0
    /\ ~(ignore_composite_keys /\ scan_i[1] = 1)
    /\ FirstDir(docker_search_dirs, layer_file_name, files) = None
    /\ scan_tried' = Append(scan_tried, scan_i[1] + 1)
    /\ scan_i' = Some(scan_i[1] - 1)
    /\ UNCHANGED <<pc, image_ids, dockerfiles, build_plan, scan_len, scanRest>>

\* mutant: the matched keys stay in image_ids
ForMatch_KeepKeys ==
    /\ pc = "for"
    /\ scan_i # None
    /\ scan_i[1] >= 0
    /\ ~(ignore_composite_keys /\ scan_i[1] = 1)
    /\ LET hit == FirstDir(docker_search_dirs, layer_file_name, files)
       IN  /\ hit # None
           /\ dockerfiles' = Append(dockerfiles,
                                    NewDockerfile(hit[1], layer_file_name, layer_image_ids))
    /\ Len(dockerfiles) < Len(image_key)
    /\ image_ids' = image_ids
    /\ scan_tried' = Append(scan_tried, scan_i[1] + 1)
    /\ scan_i' = None
    /\ pc' = "while"
    /\ UNCHANGED <<build_plan, scan_len, scanRest>>

\* a search directory holds the candidate: append the layer, drop its keys
\* from the front of image_ids, leave the for loop and test the while again
ForMatch ==
    /\ pc = "for"
    /\ scan_i # None
    /\ scan_i[1] >= 0
    /\ ~(ignore_composite_keys /\ scan_i[1] = 1)
    /\ LET hit == FirstDir(docker_search_dirs, layer_file_name, files)
       IN  /\ hit # None
           /\ dockerfiles' = Append(dockerfiles,
                                    NewDockerfile(hit[1], layer_file_name, layer_image_ids))
    /\ image_ids' = SubSeq(image_ids, scan_i[1] + 2, Len(image_ids))
    /\ scan_tried' = Append(scan_tried, scan_i[1] + 1)
    /\ scan_i' = None
    /\ pc' = "while"
    /\ UNCHANGED <<build_plan, scan_len, scanRest>>

\* the range of the for loop is exhausted without a match: return None
ForEnd ==
    /\ pc = "for"
    /\ scan_i # None
    /\ scan_i[1] < 0
    /\ build_plan' = ResolveFailure(dockerfiles, image_key)
    /\ scan_i' = None
    /\ pc' = "failed"
    /\ UNCHANGED <<image_ids, dockerfiles, scan_len, scan_tried, scanRest>>

\* the while loop ends: return ImageBuildPlan(dockerfiles, image_key)
WhileExit ==
    /\ pc = "while"
    /\ image_ids = <<>>
    /\ build_plan' = Some(NewImageBuildPlan(dockerfiles, image_key))
    /\ pc' = "resolved"
    /\ UNCHANGED <<image_ids, dockerfiles, scanVars, scanRest>>

InitScan ==
    /\ pc = "while"
    /\ image_key \in KeySeqs
    /\ image_key_set = image_key
    /\ key_order = None
    /\ docker_search_dirs \in SearchDirLists
    /\ ignore_composite_keys \in BOOLEAN
    /\ files \in FileSets(MaxFiles)
    /\ image_ids = image_key
    /\ dockerfiles = <<>>
    /\ build_plan = None
    /\ BakeIdle
    /\ HashIdle
    /\ SensIdle
    /\ MainIdle
    /\ HclIdle
    /\ ConfigIdle
    /\ ScanIdle
    /\ IdentIdle
    /\ GraphIdle
    /\ LoadIdle
    /\ CmdIdle
    /\ RunIdle

NextScan == WhileEnter \/ ForBreak \/ ForMiss \/ ForMatch \/ ForEnd \/ WhileExit

SpecScan == InitScan /\ [][NextScan]_vars

\* the loops are run to their end: the interpreter always takes the next step
SpecScanFair == SpecScan /\ WF_vars(NextScan)

---------------------------------------------------------------------------
(* Properties of the candidate-length scan *)

\* the lengths n, n - 1, ..., m in decreasing order (empty when n < m)
Descending(n, m) == [j \in 1..(IF n >= m THEN n - m + 1 ELSE 0) |-> n - j + 1]
IsPrefixOf(s, t) == Len(s) <= Len(t) /\ s = SubSeq(t, 1, Len(s))
\* a scan has ended without a match
ScanFailed == pc = "failed" /\ scan_len > 0
\* a scan has ended with a match
ScanMatched == pc = "while" /\ scan_len > 0

\* the floor of the claim under the reading that ignore_composite_keys set
\* is what permits single-key layers, and under the opposite reading
FloorSetPermits == IF ignore_composite_keys THEN 1 ELSE 2
FloorUnsetPermits == IF ignore_composite_keys THEN 2 ELSE 1

\* the original statement of C21: the lengths looked up in a scan are
\* len(remaining), len(remaining) - 1, ... without a gap, and a scan that
\* matches nothing has looked up every length down to the floor, which is 1
\* when single-key layers are permitted and 2 otherwise, whichever value of
\* the flag is taken to permit them
C21_AsStated ==
    /\ IsPrefixOf(scan_tried, Descending(scan_len, 1))
    /\ ScanFailed =>
           \/ scan_tried = Descending(scan_len, FloorSetPermits)
           \/ scan_tried = Descending(scan_len, FloorUnsetPermits)

\* where a scan that matches nothing stops
ScanFloor ==
    IF ignore_composite_keys /\ scan_len >= 2 THEN 3 ELSE 1

\* C21 (amended): the lengths looked up in a scan are len(remaining),
\* len(remaining) - 1, ... without a gap; a scan that matches nothing has
\* looked up every length down to 1 when ignore_composite_keys is false, and
\* when it is true every length down to 3 only if two or more keys remain
\* (lengths 2 and 1 are never looked up) and length 1 if one key remains; a
\* scan that matches has matched at the last length it looked up
C21_CandidateLengths ==
    /\ IsPrefixOf(scan_tried, Descending(scan_len, 1))
    /\ ScanFailed => scan_tried = Descending(scan_len, ScanFloor)
    /\ ScanMatched =>
           /\ scan_tried # <<>>
           /\ scan_tried[Len(scan_tried)] >= ScanFloor
           /\ dockerfiles # <<>>
           /\ Len(dockerfiles[Len(dockerfiles)].image_key_) = scan_tried[Len(scan_tried)]

\* a scan of three remaining keys looked up the lengths 3, 2 and 1 and
\* matched nothing
C21_Witness ==
    /\ ScanFailed
    /\ ~ignore_composite_keys
    /\ scan_tried = <<3, 2, 1>>

\* a scan of three remaining keys with the flag set looked up length 3 only
C21_WitnessFlag ==
    /\ ScanFailed
    /\ ignore_composite_keys
    /\ scan_len = 3
    /\ scan_tried = <<3>>

---------------------------------------------------------------------------
(* Properties of the resolver as a state machine *)

ScanTerminal == pc \in {"resolved", "failed"}
\* t is what is left of s after one key or more is taken from its front
ProperSuffix(t, s) == Len(t) < Len(s) /\ t = SubSeq(s, Len(s) - Len(t) + 1, Len(s))
\* a pass of the while loop ends in this step
ScanEnds == pc = "for" /\ pc' # "for"
\* some search directory holds Dockerfile.<first n remaining keys> for an n >= floor
MatchAtOrAbove(floor) ==
    \E n \in floor..Len(image_ids) :
        FirstDir(docker_search_dirs,
                 DockerfileName(ImageKeyStr(SubSeq(image_ids, 1, n))), files) # None

\* the parts of the claim that do not depend on the candidate lengths: the
\* start, the progress of every scan, Resolved, no step after the end, and
\* termination
ResolverCommon ==
    /\ pc = "while" /\ image_ids = image_key
    /\ [][ScanEnds => (pc' = "failed" \/ (pc' = "while" /\ ProperSuffix(image_ids', image_ids)))]_vars
    /\ [](pc = "resolved" => image_ids = <<>>)
    /\ [][pc' = "resolved" => (pc = "while" /\ image_ids = <<>>)]_vars
    /\ ((pc = "while" /\ image_ids = <<>>) ~> pc = "resolved")
    /\ [][~ScanTerminal]_vars
    /\ <>ScanTerminal

\* the original statement of C22, with Failed reached exactly when no
\* candidate length matches in any search directory: a scan that fails found
\* no file for any length from 2 up, and a scan for which no length from 1 up
\* has a file fails
C22_AsStated ==
    /\ ResolverCommon
    /\ [][ScanEnds => /\ pc' = "failed" => ~MatchAtOrAbove(2)
                      /\ ~MatchAtOrAbove(1) => pc' = "failed"]_vars

\* where the scan in progress stops
FloorOfScan == IF ignore_composite_keys /\ Len(image_ids) >= 2 THEN 3 ELSE 1

\* C22 (amended): resolve_dockerfiles starts with remaining equal to the
\* full key sequence and always terminates; each scan removes one key or
\* more from the front of remaining or moves to Failed; Resolved is reached
\* exactly when remaining is empty; Failed is reached exactly when no length
\* that the scan tries has a file in any search directory, which with
\* ignore_composite_keys set and two or more keys remaining are the lengths
\* from 3 up only; no step follows a terminal state
C22_StateMachine ==
    /\ ResolverCommon
    /\ [][ScanEnds => (pc' = "failed" <=> ~MatchAtOrAbove(FloorOfScan))]_vars

\* resolution ended after two scans that each removed keys
C22_Witness ==
    /\ pc = "resolved"
    /\ Len(dockerfiles) = 2
    /\ Len(image_key) = 3
    /\ image_ids = <<>>

\* resolution failed in its second scan
C22_WitnessFailed ==
    /\ pc = "failed"
    /\ Len(dockerfiles) = 1
    /\ image_ids # <<>>

---------------------------------------------------------------------------
(* Specification of resolve_dockerfiles over every set of layer files whose *)
(* names are contiguous segments of the key sequence                        *)

\* the contiguous non-empty segments of the key sequence
Segments(key) == {SubSeq(key, i, j) : i \in 1..Len(key), j \in 1..Len(key)} \ {<<>>}
SegmentFiles(key) ==
    {[dir |-> "d1", name |-> DockerfileName(ImageKeyStr(seg)), content |-> DefaultContent] :
        seg \in Segments(key)}

InitGreedy ==
    /\ pc = "resolving"
    /\ image_key \in KeySeqs
    /\ image_key_set = image_key
    /\ key_order = None
    /\ docker_search_dirs \in SearchDirLists
    /\ ignore_composite_keys \in BOOLEAN
    /\ files \in SUBSET SegmentFiles(image_key)
    /\ image_ids = image_key
    /\ dockerfiles = <<>>
    /\ build_plan = None
    /\ BakeIdle
    /\ OtherIdle

NextGreedy == ResolveScanMatch \/ ResolveScanFail \/ ResolveReturn

SpecGreedy == InitGreedy /\ [][NextGreedy]_vars

---------------------------------------------------------------------------
(* Properties of the greedy search *)

HasFile(keys) ==
    FirstDir(docker_search_dirs, DockerfileName(ImageKeyStr(keys)), files) # None

RECURSIVE Partitionable(_)
\* the keys can be cut into contiguous segments that each have a file
Partitionable(ids) ==
    \/ ids = <<>>
    \/ \E n \in 1..Len(ids) :
           HasFile(SubSeq(ids, 1, n)) /\ Partitionable(SubSeq(ids, n + 1, Len(ids)))

\* the lengths a scan of ids tries
TriedLengths(ids) ==
    (IF ignore_composite_keys /\ Len(ids) >= 2 THEN 3 ELSE 1)..Len(ids)

RECURSIVE LongestFirst(_)
\* the keys can be cut by taking, each time, the longest tried prefix that
\* has a file
LongestFirst(ids) ==
    \/ ids = <<>>
    \/ LET L == {n \in TriedLengths(ids) : HasFile(SubSeq(ids, 1, n))}
       IN  /\ L # {}
           /\ LongestFirst(SubSeq(ids, Max(L) + 1, Len(ids)))

ResolveEnded == pc \in {"resolved", "failed"}

\* the original statement of C23: resolve_dockerfiles returns a chain
\* whenever the key sequence can be partitioned into segments that each
\* have a file
C23_AsStated ==
    (ResolveEnded /\ Partitionable(image_key)) => build_plan # None

\* C23 (amended): resolve_dockerfiles returns a chain exactly when taking
\* the longest tried prefix with a file, again and again, uses up the key
\* sequence; a returned chain is a partition into segments with files, but a
\* partition may exist when None is returned
C23_GreedySearch ==
    ResolveEnded =>
        /\ build_plan # None <=> LongestFirst(image_key)
        /\ build_plan # None => Partitionable(image_key)

\* with the default flag and the files Dockerfile.a.b, Dockerfile.a and
\* Dockerfile.b.c the keys (a, b, c) have the partition a | b.c, and
\* resolve_dockerfiles returned None after matching a.b
C23_Witness ==
    /\ pc = "failed"
    /\ ~ignore_composite_keys
    /\ Len(image_key) = 3
    /\ Partitionable(image_key)
    /\ Len(dockerfiles) = 1
    /\ Len(dockerfiles[1].image_key_) = 2
    /\ build_plan = None

---------------------------------------------------------------------------
(* Properties of the context override of generate_bake_dict *)

\* a final image name and a context override were both supplied, and the
\* retag target was added
OverrideCase == Baked /\ FinalRequested /\ A.context_dir # None

---------------------------------------------------------------------------
(* Specification of the image identity: build_image_layers.main loads the   *)
(* shell configuration and the YAML file and resolves the keys, and         *)
(* get_image_name, called for the same keys, loads the shell configuration  *)
(* only. docker_search_dirs is Config.docker_search_dirs_ as                *)
(* load_shell_common_config leaves it.                                      *)

identRest == <<image_key_set, docker_search_dirs, ignore_composite_keys, files,
               image_ids, dockerfiles, bake_args, docker_bake_dict, plan_target_names,
               hashVars, sensVars, mainVars, hclVars, configVars, scanVars, graphVars, loadVars, cmdVars, runVars>>

\* Config.load, list_prepend_unique: the new list, then what the stored
\* list holds besides
list_prepend_unique(prepend_list, base_list) ==
    prepend_list \o SelectSeq(base_list, LAMBDA x : x \notin Range(prepend_list))

\* Config.load, override_value('image_key_order'): the first entry of the
\* list, split at the dots; an absent file or key leaves None
MainKeyOrder(yaml) ==
    IF yaml = None THEN None
    ELSE IF yaml[1].image_key_order = None THEN None
    ELSE Some(yaml[1].image_key_order[1][1])

\* config.docker_search_dirs_ of main after load_yaml and the insertion of
\* the context directory at the front
MainSearchDirs(shell_dirs, yaml, ctx) ==
    LET loaded == IF yaml # None /\ yaml[1].docker_search_dirs # None
                  THEN list_prepend_unique(yaml[1].docker_search_dirs[1], shell_dirs)
                  ELSE shell_dirs
    IN  IF ctx # None THEN <<ctx[1]>> \o loaded ELSE loaded

\* main up to the resolution (lines 625-652)
MainResolve ==
    /\ pc \in {"start", "name_done"}
    /\ key_order' = MainKeyOrder(yaml_config)
    /\ main_search_dirs' = MainSearchDirs(docker_search_dirs, yaml_config, context_dir_arg)
    /\ image_key' = from_key_set(image_key_set, key_order')
    /\ build_plan' = resolve_dockerfiles(image_key', main_search_dirs', files, FALSE)
    /\ pc' = IF pc = "start" THEN "main_done" ELSE "both_done"
    /\ UNCHANGED <<yaml_config, context_dir_arg, image_name_args, image_name, identRest>>

\* the calls of get_image_name that embed the fingerprint or not
IdentNameArgs == {g \in ImageNameArgs : g.file_arch = "amd64" /\ g.suffix = None}

\* run_dev: get_image_name for the same keys
IdentGetImageName ==
    /\ pc \in {"start", "main_done"}
    /\ \E g \in IdentNameArgs :
          /\ image_name_args' = Some(g)
          /\ image_name' =
                [called |-> TRUE,
                 result |-> get_image_name(g.cache_from_registry_name, image_key_set,
                                g.file_arch, g.include_hash, g.suffix,
                                docker_search_dirs, files)]
    /\ pc' = IF pc = "start" THEN "name_done" ELSE "both_done"
    /\ UNCHANGED <<key_order, image_key, build_plan, identVars, identRest>>

\* the layer files over the keys a and b in the two directories
IdentFiles ==
    {[dir |-> d, name |-> DockerfileName(ImageKeyStr(ks)), content |-> DefaultContent] :
        d \in Dirs, ks \in HashKeySeqs \ {<<>>}}
\* the YAML file: absent, or a mapping with or without image_key_order and
\* docker_search_dirs
YamlConfigs ==
    {None} \cup
    {Some([image_key_order |-> o, docker_search_dirs |-> d]) :
        o \in {None, Some(<< <<"b", "a">> >>)}, d \in {None, Some(<<"d2">>)}}

InitIdent ==
    /\ pc = "start"
    /\ image_key_set \in HashKeySeqs \ {<<>>}
    /\ key_order = None
    /\ image_key = <<>>
    /\ docker_search_dirs \in SearchDirLists
    /\ ignore_composite_keys = FALSE
    /\ files \in SUBSET IdentFiles
    /\ image_ids = <<>>
    /\ dockerfiles = <<>>
    /\ build_plan = None
    /\ BakeIdle
    /\ HashIdle
    /\ SensIdle
    /\ MainIdle
    /\ HclIdle
    /\ ConfigIdle
    /\ ScanIdle
    /\ yaml_config \in YamlConfigs
    /\ context_dir_arg \in {None, Some("d2")}
    /\ main_search_dirs = <<>>
    /\ GraphIdle
    /\ LoadIdle
    /\ CmdIdle
    /\ RunIdle

NextIdent == MainResolve \/ IdentGetImageName

SpecIdent == InitIdent /\ [][NextIdent]_vars

---------------------------------------------------------------------------
(* Properties of the image identity *)

\* the text s holds the text h
ContainsText(s, h) == \E i \in 1..(Len(s) - Len(h) + 1) : SubSeq(s, i, i + Len(h) - 1) = h
BothDone == pc = "both_done"
HashRequested == image_name_args[1].include_hash
\* the fingerprint of the plan of main is in the image name
SameFingerprint ==
    ContainsText(image_name.result[1], md5hash(build_plan[1].dockerfiles_, files))

\* the original statement of C25: the fingerprint in the name returned by
\* get_image_name(include_hash=True) is the fingerprint of the plan main
\* resolves for the same keys and files, and get_image_name fails to
\* resolve only when main fails
C25_AsStated ==
    (BothDone /\ HashRequested) =>
        /\ image_name.result = None => build_plan = None
        /\ (image_name.result # None /\ build_plan # None) => SameFingerprint

\* main is given neither a YAML file that sets image_key_order or
\* docker_search_dirs nor a context directory
PlainMain ==
    /\ context_dir_arg = None
    /\ yaml_config # None =>
           yaml_config[1].image_key_order = None /\ yaml_config[1].docker_search_dirs = None

\* get_image_name and main agree whenever main is given nothing but the
\* shell configuration
C25_AgreementOfPlainMain ==
    (BothDone /\ HashRequested /\ PlainMain) =>
        /\ image_name.result = None <=> build_plan = None
        /\ image_name.result # None => SameFingerprint

\* main resolved the layer b.a with the key order of the YAML file while
\* get_image_name exited
C25_Diverged ==
    /\ BothDone
    /\ HashRequested
    /\ image_name.result = None
    /\ build_plan # None

---------------------------------------------------------------------------
(* Specification of generate_bake_dict and the build selection of main,    *)
(* pass by pass, while another process rewrites a layer file: every         *)
(* target_name call reads the files again                                   *)

graphRest == <<image_key_set, key_order, image_key, docker_search_dirs,
               ignore_composite_keys, image_ids, dockerfiles, build_plan,
               bake_args, image_name_args, image_name,
               hashVars, prefix_names, mainVars, hclVars, configVars, scanVars, identVars, loadVars, cmdVars, runVars>>

\* one pass of the loop over the stages (lines 372-417)
GraphStage ==
    /\ pc = "graph"
    /\ graph_i < Len(build_plan[1].dockerfiles_)
    /\ LET t == StageTarget(build_plan[1].dockerfiles_, graph_i + 1, files, bake_args[1])
       IN  graph_targets' = DictSet(graph_targets, t.name, t)
    /\ graph_i' = graph_i + 1
    /\ UNCHANGED <<pc, files, written_layer, docker_bake_dict, plan_target_names,
                   graph_selected, graphRest>>

\* after the loop: the extra build arguments, the retag target (KeyError
\* when targets has no entry for the name of the whole chain), return
GraphFinish ==
    /\ pc = "graph"
    /\ graph_i = Len(build_plan[1].dockerfiles_)
    /\ LET a == bake_args[1]
           dfs == build_plan[1].dockerfiles_
           staged == WithExtraArgs(graph_targets, a.extra_build_args)
       IN  docker_bake_dict' =
               IF a.target_image_name # None /\ ~DictHas(staged, target_name(dfs, files))
               THEN [called |-> TRUE, raised |-> TRUE, variables |-> <<>>, targets |-> <<>>]
               ELSE [called |-> TRUE, raised |-> FALSE, variables |-> BakeVariables(a),
                     targets |-> IF a.target_image_name # None
                                 THEN WithFinalTarget(staged, dfs, files, a)
                                 ELSE staged]
    /\ pc' = "baked"
    /\ UNCHANGED <<files, written_layer, plan_target_names, graphVars, graphRest>>

\* mutant: the selection takes the keys of the graph
GraphSelect_FromGraph ==
    /\ pc = "baked"
    /\ ~docker_bake_dict.raised
    /\ plan_target_names' =
           Some(SelectSeq(DictKeys(docker_bake_dict.targets), LAMBDA k : k # FinalTargetKey))
    /\ graph_selected' = Some("selected")
    /\ pc' = "selected"
    /\ UNCHANGED <<files, written_layer, docker_bake_dict, graph_i, graph_targets, graphRest>>

\* main, lines 680-687: docker_bake_dict['targets'][target_name] for every
\* name of build_plan.target_names(); KeyError when a name is no key
GraphSelect ==
    /\ pc = "baked"
    /\ ~docker_bake_dict.raised
    /\ plan_target_names' = Some(target_names(build_plan[1].dockerfiles_, files))
    /\ graph_selected' =
           IF \A n \in 1..Len(plan_target_names'[1]) :
                  DictHas(docker_bake_dict.targets, plan_target_names'[1][n])
           THEN Some("selected") ELSE Some("KeyError")
    /\ pc' = "selected"
    /\ UNCHANGED <<files, written_layer, docker_bake_dict, graph_i, graph_targets, graphRest>>

\* another process rewrites the file of one layer, once
GraphWriteFile ==
    /\ pc \in {"graph", "baked"}
    /\ written_layer = None
    /\ \E k \in 1..Len(build_plan[1].dockerfiles_) :
          \E c \in Contents :
             /\ \A f \in FileOf(build_plan[1].dockerfiles_[k], files) : f.content # c
             /\ files' = WriteFile(build_plan[1].dockerfiles_[k], c, files)
             /\ written_layer' = Some(k)
    /\ UNCHANGED <<pc, docker_bake_dict, plan_target_names, graphVars, graphRest>>

\* the calls of generate_bake_dict followed pass by pass
GraphArgs ==
    {a \in BakeArgs : /\ a.arch = "x86_64"
                      /\ a.cache_from_registry = Some(OtherRegistry)
                      /\ a.base_image = None
                      /\ a.context_dir = None
                      /\ a.extra_build_args = None
                      /\ ~a.nvcr_tag}

InitGraph ==
    /\ pc = "graph"
    /\ image_key \in KeySeqs
    /\ image_key_set = image_key
    /\ key_order = None
    /\ docker_search_dirs \in SearchDirLists
    /\ ignore_composite_keys = FALSE
    /\ files \in FileSets(MaxFiles)
    /\ build_plan = resolve_dockerfiles(image_key, docker_search_dirs, files,
                                        ignore_composite_keys)
    /\ build_plan # None
    /\ files = ChainFiles(build_plan[1].dockerfiles_, files)
    /\ image_ids = <<>>
    /\ dockerfiles = build_plan[1].dockerfiles_
    /\ bake_args \in {Some(a) : a \in GraphArgs}
    /\ docker_bake_dict = NotCalled
    /\ plan_target_names = None
    /\ image_name_args = None
    /\ image_name = NotCalled
    /\ HashIdle
    /\ SensIdle
    /\ MainIdle
    /\ HclIdle
    /\ ConfigIdle
    /\ LateIdle

NextGraph == GraphStage \/ GraphFinish \/ GraphSelect \/ GraphWriteFile

SpecGraph == InitGraph /\ [][NextGraph]_vars

---------------------------------------------------------------------------
(* Properties of the graph under a concurrent rewrite *)

GraphReturned == docker_bake_dict.called
\* every depends_on entry of the graph names a key of its targets
DependsOnClosed ==
    \A n \in 1..Len(T) :
        T[n][2].depends_on # None =>
            \A j \in 1..Len(T[n][2].depends_on[1]) : DictHas(T, T[n][2].depends_on[1][j])
\* every name of target_names() is a key of the targets
NamesAreKeys ==
    \A n \in 1..Len(plan_target_names[1]) : DictHas(T, plan_target_names[1][n])

\* the original statement of C26: also when a layer file is rewritten
\* meanwhile, generate_bake_dict returns for a chain of one layer or more a
\* graph whose depends_on entries all name targets of the graph, and the
\* names of target_names() are keys of its targets
C26_AsStated ==
    N >= 1 =>
        /\ GraphReturned => (Baked /\ DependsOnClosed)
        /\ graph_selected # None => NamesAreKeys

\* while no file is rewritten the graph is consistent
C26_ConsistentWithoutWrite ==
    (N >= 1 /\ written_layer = None) =>
        /\ GraphReturned => (Baked /\ DependsOnClosed)
        /\ graph_selected # None => (NamesAreKeys /\ graph_selected = Some("selected"))

\* a rewrite between two passes left a depends_on entry without its target
C26_Dangling ==
    /\ Baked
    /\ written_layer # None
    /\ ~DependsOnClosed

\* a rewrite after generate_bake_dict made main's lookup raise KeyError
C26_KeyError == graph_selected = Some("KeyError")

---------------------------------------------------------------------------
(* Properties of the builder cleanup of main *)

CommandsRun(cmds) == {i \in 1..Len(invocations) : invocations[i].cmd \in cmds}
BakeCommands == {"bake", "final"}
FailedBakes == {i \in CommandsRun(BakeCommands) : ~invocations[i].ok}

\* C27: once docker buildx create has been run, docker buildx rm is run
\* exactly once before main returns or raises, whether every bake succeeds
\* or one fails; it is the last command, so no bake follows it, and no bake
\* follows a failed bake
C27_BuilderCleanup ==
    /\ Cardinality(CommandsRun({"rm"})) <= 1
    /\ \A i \in CommandsRun({"rm"}) : i = Len(invocations) /\ CommandsRun({"create"}) # {}
    /\ \A i \in FailedBakes : \A j \in CommandsRun(BakeCommands) : j <= i
    /\ (pc = "exited" /\ CommandsRun({"create"}) # {}) => Cardinality(CommandsRun({"rm"})) = 1

\* the builder was created, the first bake succeeded, the second failed,
\* the builder was removed and main raised
C27_Witness ==
    /\ pc = "exited"
    /\ exit_status = Some(1)
    /\ Len(invocations) = 4
    /\ invocations[1] = Invocation("create", TRUE)
    /\ invocations[2] = Invocation("bake", TRUE)
    /\ invocations[3] = Invocation("bake", FALSE)
    /\ invocations[4] = Invocation("rm", TRUE)

\* every bake succeeded and the builder was removed at the end
C27_WitnessSuccess ==
    /\ pc = "exited"
    /\ exit_status = Some(0)
    /\ FailedBakes = {}
    /\ CommandsRun({"final"}) # {}
    /\ invocations[Len(invocations)] = Invocation("rm", TRUE)

---------------------------------------------------------------------------
(* Specification of Config.load on dictionaries that hold list-valued keys *)

MaxLoads == 3

loadRest == <<pc, image_key_set, key_order, image_key, docker_search_dirs,
              ignore_composite_keys, files, image_ids, dockerfiles, build_plan, bakeVars,
              hashVars, sensVars, mainVars, hclVars, configVars, scanVars, identVars,
              graphVars, cmdVars, runVars>>

\* the keys Config.load hands to list_prepend_unique
ListKeys == {"docker_search_dirs", "cache_to_registry_names", "cache_from_registry_names"}
\* the lists a dictionary gives a key
RawLists == {<<"x">>, <<"y", "x">>, <<"z">>}
\* config_dict: some of the list keys, each with a list
ConfigDicts == UNION {[D -> RawLists] : D \in SUBSET ListKeys}

\* os.path.dirname(os.path.abspath(__file__))
ScriptDir == <<"scripts">>

\* the processor of a key: docker_search_dirs entries are joined to the
\* directory of the common config file if there is one and are all replaced
\* by the directory of the script if not; the other keys have no processor
Processor(key, ccf, val) ==
    IF key # "docker_search_dirs" THEN <<val>>
    ELSE IF ccf # None THEN <<ccf[1], "/", val>>
    ELSE ScriptDir

Processed(key, ccf, raw) == [n \in 1..Len(raw) |-> Processor(key, ccf, raw[n])]

\* mutant: the new list is appended after the stored one
LoadList_Append(key, ccf, config_dict, base_list) ==
    IF key \notin DOMAIN config_dict THEN base_list
    ELSE LET prepend_list == Processed(key, ccf, config_dict[key])
         IN  SelectSeq(base_list, LAMBDA x : x \notin Range(prepend_list)) \o prepend_list

\* list_prepend_unique(key) inside Config.load
LoadList(key, ccf, config_dict, base_list) ==
    IF key \notin DOMAIN config_dict THEN base_list
    ELSE list_prepend_unique(Processed(key, ccf, config_dict[key]), base_list)

\* Config.load(config_dict)
ConfigLoad ==
    /\ pc = "config_built"
    /\ loads_done < MaxLoads
    /\ \E config_dict \in ConfigDicts :
          /\ config_lists' =
                 [key \in ListKeys |->
                     LoadList(key, common_config_file, config_dict, config_lists[key])]
          /\ last_loaded' =
                 [key \in ListKeys |->
                     IF key \in DOMAIN config_dict
                     THEN Some(Processed(key, common_config_file, config_dict[key]))
                     ELSE last_loaded[key]]
          /\ all_unique' =
                 (all_unique /\ \A key \in DOMAIN config_dict :
                                    NoDup(Processed(key, common_config_file, config_dict[key])))
    /\ loads_done' = loads_done + 1
    /\ UNCHANGED <<common_config_file, loadRest>>

\* Config.__init__: the lists are empty; load_shell_common_config has or has
\* not found a common config file
InitLoad ==
    /\ pc = "config_built"
    /\ image_key_set = <<>>
    /\ key_order = None
    /\ image_key = <<>>
    /\ docker_search_dirs = <<>>
    /\ ignore_composite_keys = FALSE
    /\ files = {}
    /\ image_ids = <<>>
    /\ dockerfiles = <<>>
    /\ build_plan = None
    /\ BakeIdle
    /\ HashIdle
    /\ SensIdle
    /\ MainIdle
    /\ HclIdle
    /\ ConfigIdle
    /\ ScanIdle
    /\ IdentIdle
    /\ GraphIdle
    /\ common_config_file \in {None, Some("cfg")}
    /\ config_lists = [key \in ListKeys |-> <<>>]
    /\ last_loaded = [key \in ListKeys |-> None]
    /\ loads_done = 0
    /\ all_unique = TRUE
    /\ CmdIdle
    /\ RunIdle

NextLoad == ConfigLoad

SpecLoad == InitLoad /\ [][NextLoad]_vars

---------------------------------------------------------------------------
(* Properties of Config.load *)

\* s without the entries that are not in S
Restrict(s, S) == SelectSeq(s, LAMBDA x : x \in S)
\* the stored list of the key begins with the list p
BeginsWith(key, p) == IsPrefixOf(p, config_lists[key])

\* C28: while every loaded list is duplicate-free after processing, each
\* stored list is duplicate-free and begins with the list of the latest load
\* that had the key; a load puts its list first and keeps after it the
\* entries stored before that are not in it, in their order; a load without
\* the key leaves the stored list as it is
C28_PrependUnique ==
    /\ [](all_unique =>
             \A key \in ListKeys :
                 /\ NoDup(config_lists[key])
                 /\ last_loaded[key] = None => config_lists[key] = <<>>
                 /\ last_loaded[key] # None => BeginsWith(key, last_loaded[key][1]))
    /\ [][all_unique' =>
             \A key \in ListKeys :
                 \/ last_loaded'[key] = last_loaded[key] /\ config_lists'[key] = config_lists[key]
                 \/ LET new == last_loaded'[key][1]
                    IN  /\ SubSeq(config_lists'[key], 1, Len(new)) = new
                        /\ SubSeq(config_lists'[key], Len(new) + 1, Len(config_lists'[key]))
                             = Restrict(config_lists[key],
                                        Range(config_lists[key]) \ Range(new))]_vars

\* after the loads (y, x), then (z), then (x) of the cache-from registries
\* the stored list is x, z, y
C28_Witness ==
    /\ all_unique
    /\ loads_done = 3
    /\ config_lists["cache_from_registry_names"] = << <<"x">>, <<"z">>, <<"y">> >>
    /\ config_lists["docker_search_dirs"] # <<>>

---------------------------------------------------------------------------
(* Specification of the commands 'init docker' and 'activate' over the     *)
(* scope files                                                              *)

cmdRest == <<image_key_set, key_order, image_key, docker_search_dirs,
             ignore_composite_keys, files, image_ids, dockerfiles, build_plan, bakeVars,
             hashVars, sensVars, mainVars, hclVars, scanVars, identVars, graphVars, loadVars,
             runVars>>

SystemScope == 2

\* update_config(overlay, scope): the scope files after the call, or the
\* exception it raises; an existing file that holds no mapping makes
\* _deep_merge raise before anything is written
update_config(cf, overlay, scope) ==
    IF ConfigScope[scope] = "READ_ONLY" THEN [raised |-> TRUE, files |-> cf]
    ELSE IF cf[scope] # None /\ ~IsMapping(cf[scope][1]) THEN [raised |-> TRUE, files |-> cf]
    ELSE LET config == IF cf[scope] # None THEN cf[scope][1].items ELSE <<>>
         IN  [raised |-> FALSE,
              files |-> [cf EXCEPT ![scope] = Some(Mapping(deep_merge(config, overlay)))]]

\* patch = {'environment': {'mode': environment}}
InitPatch(environment) ==
    [k \in {"environment"} |-> Mapping([m \in {"mode"} |-> Scalar(environment)])]

\* isaac-ros init docker: exit 1 without root privileges or when
\* update_config raises
InitDocker ==
    /\ pc \in {"shell", "activate"}
    /\ init_outcome = None
    /\ pc' = IF pc = "shell" THEN "init" ELSE "activate, init"
    /\ \E is_root \in BOOLEAN :
          LET updated == update_config(config_files, InitPatch("docker"), SystemScope)
          IN  IF is_root /\ ~updated.raised
              THEN /\ config_files' = updated.files
                   /\ init_outcome' = Some("done")
              ELSE /\ config_files' = config_files
                   /\ init_outcome' = Some("exit 1")
    /\ UNCHANGED <<loaded_config, activate_outcome, cmdRest>>

\* mutant: every mode that is not 'uninitialized' is taken for docker
ActivateOutcome_AnyMode(loaded) ==
    IF loaded.raised # None THEN loaded.raised[1]
    ELSE IF "environment" \notin DOMAIN loaded.merged THEN "exit 1: missing key"
    ELSE IF ~IsMapping(loaded.merged["environment"]) THEN "exit 1: failed to read"
    ELSE IF "mode" \notin DOMAIN loaded.merged["environment"].items
         THEN "exit 1: missing key"
    ELSE IF loaded.merged["environment"].items["mode"] = Scalar("uninitialized")
         THEN "exit 1: mode is not set"
    ELSE "activate_docker"

\* activate after cfg = load_config(): an exception of load_config leaves
\* the command; KeyError and any other exception of
\* cfg['environment']['mode'] end in exit 1; then the match on the mode
ActivateOutcome(loaded) ==
    IF loaded.raised # None THEN loaded.raised[1]
    ELSE IF "environment" \notin DOMAIN loaded.merged THEN "exit 1: missing key"
    ELSE IF ~IsMapping(loaded.merged["environment"]) THEN "exit 1: failed to read"
    ELSE IF "mode" \notin DOMAIN loaded.merged["environment"].items
         THEN "exit 1: missing key"
    ELSE IF loaded.merged["environment"].items["mode"] = Scalar("uninitialized")
         THEN "exit 1: mode is not set"
    ELSE IF loaded.merged["environment"].items["mode"] = Scalar("docker")
         THEN "activate_docker"
    ELSE "exit 1: invalid mode"

\* isaac-ros activate
Activate ==
    /\ pc \in {"shell", "init"}
    /\ activate_outcome = None
    /\ pc' = IF pc = "shell" THEN "activate" ELSE "init, activate"
    /\ loaded_config' = Some(load_config(config_files))
    /\ activate_outcome' = Some(ActivateOutcome(loaded_config'[1]))
    /\ UNCHANGED <<config_files, init_outcome, cmdRest>>

\* what a scope file can give the key environment
EnvironmentValues ==
    {Scalar("s1")}
        \cup {Mapping(m) : m \in PartialMaps({"mode"},
                  {Scalar("docker"), Scalar("uninitialized"), Scalar("native")})}
\* the documents of a scope file
CmdDocuments ==
    {Mapping(m) : m \in PartialMaps({"environment"}, EnvironmentValues)} \cup {Scalar("s1")}

InitCmd ==
    /\ pc = "shell"
    /\ image_key_set = <<>>
    /\ key_order = None
    /\ image_key = <<>>
    /\ docker_search_dirs = <<>>
    /\ ignore_composite_keys = FALSE
    /\ files = {}
    /\ image_ids = <<>>
    /\ dockerfiles = <<>>
    /\ build_plan = None
    /\ BakeIdle
    /\ HashIdle
    /\ SensIdle
    /\ MainIdle
    /\ HclIdle
    /\ ScanIdle
    /\ IdentIdle
    /\ GraphIdle
    /\ LoadIdle
    /\ CmdIdle
    /\ RunIdle
    /\ config_files \in [1..Len(ConfigScope) -> {None} \cup {Some(d) : d \in CmdDocuments}]
    /\ loaded_config = None

NextCmd == InitDocker \/ Activate

SpecCmd == InitCmd /\ [][NextCmd]_vars

---------------------------------------------------------------------------
(* Properties of init then activate *)

\* activate ran after a successful 'init docker'
InitThenActivate ==
    /\ pc = "init, activate"
    /\ init_outcome = Some("done")
    /\ activate_outcome # None
    /\ config_files[SystemScope] # None
    /\ IsMapping(config_files[SystemScope][1])
    /\ "environment" \in DOMAIN Doc(SystemScope)
    /\ Doc(SystemScope)["environment"] = Mapping([m \in {"mode"} |-> Scalar("docker")])

\* the original statement of C29: after a successful 'init docker' activate
\* delegates to activate_docker whatever the other scope files hold
C29_AsStated ==
    InitThenActivate => activate_outcome = Some("activate_docker")

\* the file of the scope gives environment a value that is no mapping, or a
\* mapping with the key mode
Settles(s) ==
    /\ "environment" \in DOMAIN Doc(s)
    /\ \/ ~IsMapping(Doc(s)["environment"])
       \/ "mode" \in DOMAIN Doc(s)["environment"].items
SettlesDocker(s) ==
    /\ "environment" \in DOMAIN Doc(s)
    /\ IsMapping(Doc(s)["environment"])
    /\ "mode" \in DOMAIN Doc(s)["environment"].items
    /\ Doc(s)["environment"].items["mode"] = Scalar("docker")

\* C29 (amended): after a successful 'init docker' activate delegates to
\* activate_docker exactly when every existing scope file holds a mapping
\* and the highest scope that gives environment a value that is no mapping,
\* or a mode, gives the mode docker: the USER and WORKSPACE files take
\* precedence over the SYSTEM file that init wrote, and a scope file that
\* holds no mapping makes load_config raise ValueError
C29_InitThenActivate ==
    InitThenActivate =>
        /\ activate_outcome = Some("activate_docker") <=>
               /\ \A s \in Existing : IsMapping(config_files[s][1])
               /\ SettlesDocker(Max({s \in Existing : Settles(s)}))
        /\ (\E s \in Existing : ~IsMapping(config_files[s][1])) =>
               activate_outcome = Some("ValueError")

\* init wrote the SYSTEM file next to a READ_ONLY file saying uninitialized
\* and a USER file without mode, and activate delegated to activate_docker
C29_Witness ==
    /\ InitThenActivate
    /\ activate_outcome = Some("activate_docker")
    /\ Existing = {1, 2, 3}
    /\ IsMapping(config_files[1][1])
    /\ IsMapping(config_files[3][1])
    /\ "environment" \in DOMAIN Doc(1)
    /\ Doc(1)["environment"] = Mapping([m \in {"mode"} |-> Scalar("uninitialized")])
    /\ "environment" \in DOMAIN Doc(3)
    /\ ~Settles(3)

\* the USER file says mode native and activate ended with exit 1
C29_WitnessOverride ==
    /\ InitThenActivate
    /\ 3 \in Existing
    /\ IsMapping(config_files[3][1])
    /\ Settles(3)
    /\ activate_outcome = Some("exit 1: invalid mode")


----------------------------------------------------------------------------
(* run_dev.main: the image the development container is started with *)

runRest == <<image_key_set, key_order, image_key, docker_search_dirs,
             ignore_composite_keys, files, image_ids, dockerfiles, build_plan, bakeVars,
             hashVars, sensVars, mainVars, hclVars, configVars, scanVars, identVars,
             graphVars, loadVars, cmdVars>>

\* make_docker_image_available without its test of the two return codes
make_docker_image_available_Unchecked(name, cached, local, registry) ==
    { [ok |-> TRUE,
       local |-> IF pulled THEN local \cup {name, cached} ELSE local \cup {cached}]
      : pulled \in (IF name \in registry THEN {TRUE, FALSE} ELSE {FALSE}) }

\* make_docker_image_available(base_name, cached_image_name): the possible
\* outcomes, each the returned value and the local store afterwards. docker
\* pull can succeed only for an image of the registry, and stores it; docker
\* image inspect and docker tag succeed exactly when the image is stored.
make_docker_image_available(name, cached, local, registry) ==
    { LET pulled_store == IF pulled THEN local \cup {name} ELSE local
          local_image == name \in pulled_store
      IN  IF pulled \/ local_image
          THEN [ok |-> name \in pulled_store,
                local |-> (pulled_store \ {cached}) \cup {cached}]
          ELSE [ok |-> FALSE, local |-> pulled_store]
      : pulled \in (IF name \in registry THEN {TRUE, FALSE} ELSE {FALSE}) }

\* main up to the choice of the image (lines 483-521): the checks of the
\* host, the attachment to a running container, the registry logins and
\* get_image_name
RunChecks ==
    /\ pc = "main"
    /\ IF ~host.checks_pass
       THEN /\ run_exit' = Some(1)
            /\ pc' = "exited"
            /\ run_trace' = run_trace
       ELSE IF host.running
       THEN /\ run_exit' = Some(0)
            /\ pc' = "exited"
            /\ run_trace' = Append(run_trace, <<"attach", TRUE>>)
       ELSE IF ~host.named
       THEN /\ run_exit' = Some(1)
            /\ pc' = "exited"
            /\ run_trace' = run_trace
       ELSE /\ run_exit' = run_exit
            /\ pc' = "select"
            /\ run_trace' = run_trace
    /\ UNCHANGED <<run_args, host, local_images, registry_images, run_base_name,
                   container_image, runRest>>

\* main, lines 522-541: the cached image under --use-cached-build-image,
\* else the first call of make_docker_image_available
RunSelect ==
    /\ pc = "select"
    /\ IF run_args.use_cached_build_image
       THEN LET cached_image_exists == cached_image_name \in local_images
            IN  /\ run_trace' = Append(run_trace, <<"inspect", cached_image_exists>>)
                /\ local_images' = local_images
                /\ IF cached_image_exists
                   THEN /\ run_base_name' = cached_image_name
                        /\ pc' = "ready"
                        /\ run_exit' = run_exit
                   ELSE /\ run_base_name' = run_base_name
                        /\ pc' = "exited"
                        /\ run_exit' = Some(1)
       ELSE \E r \in make_docker_image_available(run_base_name, cached_image_name,
                                                 local_images, registry_images) :
                /\ run_trace' = Append(run_trace, <<"available", r.ok>>)
                /\ local_images' = r.local
                /\ run_base_name' = run_base_name
                /\ IF r.ok
                   THEN /\ pc' = "ready"
                        /\ run_exit' = run_exit
                   ELSE IF ~(run_args.build \/ run_args.build_local)
                   THEN /\ pc' = "exited"
                        /\ run_exit' = Some(1)
                   ELSE /\ pc' = "build"
                        /\ run_exit' = run_exit
    /\ UNCHANGED <<run_args, host, registry_images, container_image, runRest>>

\* main, lines 543-557: build_image_layers either ends the process with
\* status 1 (exit(1) or an exception) or returns; the build may have stored
\* or pushed the image
RunBuild ==
    /\ pc = "build"
    /\ \E returned \in BOOLEAN :
           /\ run_trace' = Append(run_trace, <<"build", returned>>)
           /\ IF returned
              THEN /\ pc' = "built"
                   /\ run_exit' = run_exit
                   /\ local_images' \in {local_images, local_images \cup {run_base_name}}
                   /\ registry_images' \in
                          {registry_images, registry_images \cup {run_base_name}}
              ELSE /\ pc' = "exited"
                   /\ run_exit' = Some(1)
                   /\ local_images' = local_images
                   /\ registry_images' = registry_images
    /\ UNCHANGED <<run_args, host, run_base_name, container_image, runRest>>

\* main, lines 558-560: the second call of make_docker_image_available
RunRecheck ==
    /\ pc = "built"
    /\ \E r \in make_docker_image_available(run_base_name, cached_image_name,
                                            local_images, registry_images) :
           /\ run_trace' = Append(run_trace, <<"available", r.ok>>)
           /\ local_images' = r.local
           /\ IF r.ok
              THEN /\ pc' = "ready"
                   /\ run_exit' = run_exit
              ELSE /\ pc' = "exited"
                   /\ run_exit' = Some(1)
    /\ UNCHANGED <<run_args, host, registry_images, run_base_name, container_image,
                   runRest>>

\* main, lines 562-564: run_docker_container starts the container with
\* base_name, and the process ends
RunContainer ==
    /\ pc = "ready"
    /\ container_image' = Some(run_base_name)
    /\ run_trace' = Append(run_trace, <<"run", TRUE>>)
    /\ run_exit' = Some(0)
    /\ pc' = "exited"
    /\ UNCHANGED <<run_args, host, local_images, registry_images, run_base_name, runRest>>

InitRun ==
    /\ pc = "main"
    /\ image_key_set = <<>>
    /\ key_order = None
    /\ image_key = <<>>
    /\ docker_search_dirs = <<>>
    /\ ignore_composite_keys = FALSE
    /\ files = {}
    /\ image_ids = <<>>
    /\ dockerfiles = <<>>
    /\ build_plan = None
    /\ BakeIdle
    /\ HashIdle
    /\ SensIdle
    /\ MainIdle
    /\ HclIdle
    /\ ConfigIdle
    /\ ScanIdle /\ IdentIdle /\ GraphIdle /\ LoadIdle
    /\ init_outcome = None
    /\ activate_outcome = None
    /\ run_args \in [use_cached_build_image : BOOLEAN, build : BOOLEAN,
                     build_local : BOOLEAN]
    /\ host \in [checks_pass : BOOLEAN, running : BOOLEAN, named : BOOLEAN]
    /\ local_images \in SUBSET {HashedImageName, cached_image_name}
    /\ registry_images \in SUBSET {HashedImageName}
    /\ run_base_name = HashedImageName
    /\ run_trace = <<>>
    /\ container_image = None
    /\ run_exit = None

NextRun == RunChecks \/ RunSelect \/ RunBuild \/ RunRecheck \/ RunContainer

SpecRun == InitRun /\ [][NextRun]_vars

----------------------------------------------------------------------------
(* Properties of the image availability *)

Started == container_image # None
Attached == \E k \in 1..Len(run_trace) : run_trace[k][1] = "attach"
BuildInvoked == \E k \in 1..Len(run_trace) : run_trace[k][1] = "build"

\* the container runs the cached image, which passed the inspection
StartedCached ==
    /\ run_args.use_cached_build_image
    /\ container_image = Some(cached_image_name)
    /\ run_trace = <<<<"inspect", TRUE>>, <<"run", TRUE>>>>

\* the container runs the image make_docker_image_available returned True
\* for, at the first call or at the call after a build
StartedAvailable ==
    /\ ~run_args.use_cached_build_image
    /\ container_image = Some(HashedImageName)
    /\ \/ run_trace = <<<<"available", TRUE>>, <<"run", TRUE>>>>
       \/ run_trace = <<<<"available", FALSE>>, <<"build", TRUE>>,
                        <<"available", TRUE>>, <<"run", TRUE>>>>

\* the build follows a call of make_docker_image_available that returned
\* False, in a run with --build or --build-local
BuildOnlyWhenUnavailable ==
    \A k \in 1..Len(run_trace) :
        run_trace[k][1] = "build" =>
            /\ k = 2
            /\ run_trace[1] = <<"available", FALSE>>
            /\ run_args.build \/ run_args.build_local

StartedVerified ==
    Started => /\ StartedCached \/ StartedAvailable
               /\ container_image[1] \in local_images

C30_WitnessCached ==
    /\ Started
    /\ StartedCached
    /\ HashedImageName \notin local_images

\* the build did not make the image available: status 1, no container
C30_WitnessUnavailable ==
    /\ pc = "exited"
    /\ ~Started
    /\ run_trace = <<<<"available", FALSE>>, <<"build", TRUE>>, <<"available", FALSE>>>>
    /\ run_exit = Some(1)

=============================================================================
